---- MODULE Spec2Model ----
(***************************************************************************)
(* har-tui: streaming ingestion of a HAR document into an entry store and  *)
(* a multi-dimensional index, the filter engine over them, and the UI      *)
(* event loop that consumes both.                                          *)
(*                                                                         *)
(* A document is a sequence of JSON tokens.  Scalars and whole entry       *)
(* objects are single tokens; whitespace is not modelled.                  *)
(***************************************************************************)
EXTENDS Integers, Sequences, FiniteSets, TLC

\* ------------------------------------------------------------------ bounds
\* Largest number of entries in the entries array of a document.
MaxEntries == 2
\* Capacity of the UI's queue of pending closures (tview's update channel).
QueueCap == 1
\* Largest number of filter keys the operator presses in one run.
MaxKeys == 1
\* Largest store of a stand-alone filter evaluation.
MaxFilterEntries == 3
\* Longest argument list and largest position of a stand-alone intersection.
MaxListLen == 3
MaxPos == 2

\* Longest list and largest position of the worked intersection examples.
MaxExampleLen == 5
MaxExamplePos == 4

\* How far beyond insertionSortLimit the lists of a stand-alone sort go.
MaxSortExtra == 1

\* Largest number of entries handed to the waterfall view.
MaxChartEntries == 2

\* Number of renders of the same view that are compared.
MaxRenders == 2

\* Largest number of rows of a staggered chart.
MaxStaggerRows == 7

MaxLockEntries == 2

\* ------------------------------------------------------- scaled constants
\* parseEntries: batchSize := 50.  The model bounds it so that the periodic
\* progress notification happens within MaxEntries entries.
batchSize == 2
\* defaultBatchUpdateSize = 100, bounded in the same way.
defaultBatchUpdateSize == 2

\* ----------------------------------------------------------------- entries
\* A text is a sequence of characters; ToLower and Contains work on it as
\* strings.ToLower and strings.Contains do.
ToLowerChar(c) == CASE c = "A" -> "a" [] c = "B" -> "b" [] OTHER -> c

ToLower(s) == [i \in 1..Len(s) |-> ToLowerChar(s[i])]

Contains(s, sub) ==
  \E i \in 0..(Len(s) - Len(sub)) : SubSeq(s, i + 1, i + Len(sub)) = sub

\* HAREntry, reduced to the fields the index and the filters read: the
\* response status, whether the request carries an Origin header, the
\* _resourceType hint, the duration and the URL host.  Every modelled request
\* is a non-OPTIONS request with a parseable http URL.
HAREntry(status, origin, resourceType, time, host) ==
  [status |-> status, origin |-> origin, resourceType |-> resourceType,
   time |-> time, host |-> host]

E1 == HAREntry(200, FALSE, "document", 10, <<"a", "b">>)
E2 == HAREntry(500, FALSE, "fetch", 20, <<"B", "a">>)
E3 == HAREntry(0, TRUE, "fetch", 10, <<"b">>)
E4 == HAREntry(404, FALSE, "", 30, <<"a">>)
E5 == HAREntry(0, FALSE, "document", 20, <<"A">>)

\* What json decoding of an entry token yields.
EntryOf(tok) ==
  CASE tok = "E1" -> E1 [] tok = "E2" -> E2 [] tok = "E3" -> E3
    [] tok = "E4" -> E4 [] tok = "E5" -> E5

EntryTokens == {"E1", "E2", "E3", "E4", "E5"}

\* ------------------------------------------------------------ classifier
\* What IsCORSError and GetRequestType read of an entry.  Header names are
\* matched in lower case, so a header is modelled by its presence or by its
\* value.  urlOK: url.Parse(entry.Request.URL) returned no error; scheme,
\* host and path are the parsed URL's.  referer is "none" (no such header),
\* "bad" (a value url.Parse rejects) or the host of the parsed value.
\* reqJSON: a request content-type header contains application/json.
\* xhr: X-Requested-With: XMLHttpRequest, or an Accept of json or xml.
RequestFacts(status, method, acrm, origin, secFetchMode, urlOK, scheme, host, path, referer, reqJSON, resourceType, contentType, xhr) ==
  [status |-> status, method |-> method, acrm |-> acrm, origin |-> origin,
   secFetchMode |-> secFetchMode, urlOK |-> urlOK, scheme |-> scheme,
   host |-> host, path |-> path, referer |-> referer, reqJSON |-> reqJSON,
   resourceType |-> resourceType, contentType |-> contentType, xhr |-> xhr]

\* strings.ToLower on the header values and hints of the model.
LowerValue(v) ==
  CASE v = "CORS" -> "cors" [] v = "Fetch" -> "fetch" [] v = "Image" -> "image"
    [] v = "Text/CSS" -> "text/css" [] OTHER -> v

\* IsCORSError stopping after the preflight rule only when it matched.
IsCORSErrorPreflightFallsThrough(r) ==
  IF r.status # 0 THEN FALSE
  ELSE IF r.method = "OPTIONS" /\ r.acrm THEN TRUE
  ELSE IF r.origin \/ LowerValue(r.secFetchMode) = "cors" THEN TRUE
  ELSE IF r.method = "GET"
  THEN r.urlOK /\ r.referer \notin {"none", "bad"}
       /\ r.host # "" /\ r.referer # "" /\ r.host # r.referer /\ r.reqJSON
  ELSE FALSE

\* IsCORSError on the facts of a request.
IsCORSErrorOf(r) ==
  IF r.status # 0 THEN FALSE
  ELSE IF r.method = "OPTIONS" THEN r.acrm
  ELSE IF r.origin \/ LowerValue(r.secFetchMode) = "cors" THEN TRUE
  ELSE IF r.method = "GET"
  THEN r.urlOK /\ r.referer \notin {"none", "bad"}
       /\ r.host # "" /\ r.referer # "" /\ r.host # r.referer /\ r.reqJSON
  ELSE FALSE

\* The switch over strings.ToLower(entry.ResourceType); "" when no case
\* matches.
ResourceTypeLabel(resourceType) ==
  LET rt == LowerValue(resourceType) IN
  CASE rt = "image" -> "img" [] rt = "stylesheet" -> "css"
    [] rt = "script" -> "js" [] rt = "document" -> "doc"
    [] rt = "media" -> "media" [] rt = "manifest" -> "manifest"
    [] rt = "websocket" -> "ws" [] rt \in {"fetch", "xhr"} -> "fetch"
    [] rt = "wasm" -> "wasm" [] OTHER -> ""

\* The switch over the response Content-Type; "" when there is no such
\* header or no case matches.
ContentTypeLabel(contentType) ==
  LET ct == LowerValue(contentType) IN
  CASE ct = "text/html" -> "doc" [] ct = "text/css" -> "css"
    [] ct = "application/javascript" -> "js" [] ct = "image/png" -> "img"
    [] ct = "video/mp4" -> "media" [] ct = "application/manifest+json" -> "manifest"
    [] ct = "application/wasm" -> "wasm"
    [] ct \in {"application/json", "text/xml"} -> "fetch" [] OTHER -> ""

\* The switch over the suffix of the lower-case path; "" when none matches.
ExtensionLabel(path) ==
  CASE path \in {"/x.html", "/api/x.html"} -> "doc"
    [] path = "/x.css" -> "css" [] path \in {"/x.js", "/api/x.js"} -> "js"
    [] path = "/x.png" -> "img" [] path = "/x.mp4" -> "media"
    [] path = "/x.wasm" -> "wasm" [] path = "/x.webmanifest" -> "manifest"
    [] OTHER -> ""

\* strings.Contains(path, "/api/") and the like.
IsAPIPath(path) == path \in {"/api/x", "/api/x.js", "/api/x.html"}

\* GetRequestType on the facts of a request.
GetRequestTypeOf(r) ==
  IF IsCORSErrorOf(r) THEN "cors"
  ELSE IF ~r.urlOK THEN "other"
  ELSE IF r.scheme \in {"ws", "wss"} THEN "ws"
  ELSE IF r.resourceType # "" /\ ResourceTypeLabel(r.resourceType) # ""
  THEN ResourceTypeLabel(r.resourceType)
  ELSE IF ContentTypeLabel(r.contentType) # "" THEN ContentTypeLabel(r.contentType)
  ELSE IF ExtensionLabel(r.path) # "" THEN ExtensionLabel(r.path)
  ELSE IF r.xhr THEN "fetch"
  ELSE IF r.path \in {"/", ""} THEN "doc"
  ELSE IF IsAPIPath(r.path) THEN "fetch"
  ELSE "other"

\* The facts of a store entry: a GET of http://<host>/x with no header but
\* Origin (when the entry has it) and no response Content-Type.
FactsOf(e) ==
  RequestFacts(e.status, "GET", FALSE, e.origin, "", TRUE, "http", "a", "/x",
               "none", FALSE, e.resourceType, "", FALSE)

\* IsCORSError and GetRequestType on a store entry.
IsCORSError(e) == IsCORSErrorOf(FactsOf(e))

GetRequestType(e) == GetRequestTypeOf(FactsOf(e))

\* GetTypeFilters, the labels the modelled entries can carry and "all".
TypeFilters == <<"all", "fetch", "doc", "cors", "other">>

Types == {"fetch", "doc", "cors", "js", "other"}

Statuses == {0, 200, 404, 500}

\* ----------------------------------------------------------------- decoder
\* encoding/json's Decoder as the loader uses it: a read position in the
\* document, the token state and the stack of enclosing token states.
tokenValueAllowed(st) == st \in {"top", "arrStart", "arrValue", "objValue"}

tokenValueEnd(st) ==
  CASE st \in {"arrStart", "arrValue"} -> "arrComma"
    [] st = "objValue" -> "objComma"
    [] OTHER -> st

IsString(c) == c \in {"log", "entries", "key"}

NewDecoder == [scanp |-> 1, state |-> "top", stack |-> <<>>]

\* decoder.More(): there is another byte and it closes no array or object.
More(d, dc) == dc.scanp <= Len(d) /\ d[dc.scanp] \notin {"]", "}"}

\* readValue: the position of the last token of the value that starts at p,
\* or 0 when the input ends or is invalid before the value is complete.
RECURSIVE ScanEnd(_, _, _)
ScanEnd(d, p, depth) ==
  IF p > Len(d) THEN 0
  ELSE LET c == d[p] IN
    CASE c \in {"{", "["} -> ScanEnd(d, p + 1, depth + 1)
      [] c \in {"}", "]"} ->
           IF depth = 0 THEN 0
           ELSE IF depth = 1 THEN p ELSE ScanEnd(d, p + 1, depth - 1)
      [] c = "bad" -> 0
      [] c \in {",", ":"} -> IF depth = 0 THEN 0 ELSE ScanEnd(d, p + 1, depth)
      [] OTHER -> IF depth = 0 THEN p ELSE ScanEnd(d, p + 1, depth)

DecErr(dc) == [err |-> TRUE, val |-> "", dec |-> dc]

\* decoder.Decode(&v): tokenPrepareForDecode, then one whole value.  val is
\* the first token of the value read.
Decode(d, dc) ==
  LET sep == IF dc.state = "arrComma" THEN ","
             ELSE IF dc.state = "objColon" THEN ":" ELSE ""
      sepOK == sep = "" \/ (dc.scanp <= Len(d) /\ d[dc.scanp] = sep)
      p == IF sep = "" THEN dc.scanp ELSE dc.scanp + 1
      st == CASE dc.state = "arrComma" -> "arrValue"
              [] dc.state = "objColon" -> "objValue"
              [] OTHER -> dc.state
      end == ScanEnd(d, p, 0)
  IN IF ~sepOK \/ ~tokenValueAllowed(st) \/ end = 0 THEN DecErr(dc)
     ELSE [err |-> FALSE, val |-> d[p],
           dec |-> [scanp |-> end + 1, state |-> tokenValueEnd(st),
                    stack |-> dc.stack]]

\* Decode(&entry) into a HAREntry: the value must be an object.
DecodeEntry(d, dc) ==
  LET r == Decode(d, dc) IN
  IF r.err \/ r.val \in EntryTokens THEN r ELSE [r EXCEPT !.err = TRUE]

\* decoder.Token(): the next token, skipping ':' and ',' where they belong.
RECURSIVE Token(_, _)
Token(d, dc) ==
  IF dc.scanp > Len(d) THEN DecErr(dc)
  ELSE LET c == d[dc.scanp]
           next == dc.scanp + 1
           n == Len(dc.stack)
       IN
    CASE c \in {"[", "{"} ->
           IF tokenValueAllowed(dc.state)
           THEN [err |-> FALSE, val |-> c,
                 dec |-> [scanp |-> next,
                          state |-> IF c = "[" THEN "arrStart" ELSE "objStart",
                          stack |-> Append(dc.stack, dc.state)]]
           ELSE DecErr(dc)
      [] c \in {"]", "}"} ->
           IF (c = "]" /\ dc.state \in {"arrStart", "arrComma"})
              \/ (c = "}" /\ dc.state \in {"objStart", "objComma"})
           THEN [err |-> FALSE, val |-> c,
                 dec |-> [scanp |-> next,
                          state |-> tokenValueEnd(dc.stack[n]),
                          stack |-> SubSeq(dc.stack, 1, n - 1)]]
           ELSE DecErr(dc)
      [] c = ":" ->
           IF dc.state = "objColon"
           THEN Token(d, [dc EXCEPT !.scanp = next, !.state = "objValue"])
           ELSE DecErr(dc)
      [] c = "," ->
           IF dc.state = "arrComma"
           THEN Token(d, [dc EXCEPT !.scanp = next, !.state = "arrValue"])
           ELSE IF dc.state = "objComma"
           THEN Token(d, [dc EXCEPT !.scanp = next, !.state = "objKey"])
           ELSE DecErr(dc)
      [] OTHER ->
           IF IsString(c) /\ dc.state \in {"objStart", "objKey"}
           THEN [err |-> FALSE, val |-> c,
                 dec |-> [dc EXCEPT !.scanp = next, !.state = "objColon"]]
           ELSE IF tokenValueAllowed(dc.state) THEN Decode(d, dc)
           ELSE DecErr(dc)

\* --------------------------------------------------------------- documents
RECURSIVE JoinEntries(_)
JoinEntries(toks) ==
  IF Len(toks) = 0 THEN <<>>
  ELSE IF Len(toks) = 1 THEN toks
  ELSE <<toks[1], ",">> \o JoinEntries(Tail(toks))

\* {"key": num, "log": {"key": [], "entries": [ ... ], "key": num}}
HARDocument(toks) ==
  <<"{", "key", ":", "num", ",", "log", ":", "{", "key", ":", "[", "]", ",",
    "entries", ":", "[">> \o JoinEntries(toks)
    \o <<"]", ",", "key", ":", "num", "}", "}">>

Truncated(d, n) == SubSeq(d, 1, n)

Corrupted(d, i) == [d EXCEPT ![i] = "bad"]

\* The JSON grammar over tokens: the position of the last token of the value
\* that starts at p, or 0 when no well-formed value starts there.
RECURSIVE ValueEnd(_, _), ElementsEnd(_, _), MembersEnd(_, _)
ValueEnd(d, p) ==
  IF p > Len(d) THEN 0
  ELSE CASE d[p] = "[" ->
              IF p + 1 <= Len(d) /\ d[p + 1] = "]" THEN p + 1
              ELSE ElementsEnd(d, p + 1)
         [] d[p] = "{" ->
              IF p + 1 <= Len(d) /\ d[p + 1] = "}" THEN p + 1
              ELSE MembersEnd(d, p + 1)
         [] IsString(d[p]) \/ d[p] = "num" \/ d[p] \in EntryTokens -> p
         [] OTHER -> 0

ElementsEnd(d, p) ==
  LET e == ValueEnd(d, p) IN
  IF e = 0 \/ e + 1 > Len(d) THEN 0
  ELSE IF d[e + 1] = "]" THEN e + 1
  ELSE IF d[e + 1] = "," THEN ElementsEnd(d, e + 2)
  ELSE 0

MembersEnd(d, p) ==
  IF p + 1 > Len(d) \/ ~IsString(d[p]) \/ d[p + 1] # ":" THEN 0
  ELSE LET e == ValueEnd(d, p + 2) IN
       IF e = 0 \/ e + 1 > Len(d) THEN 0
       ELSE IF d[e + 1] = "}" THEN e + 1
       ELSE IF d[e + 1] = "," THEN MembersEnd(d, e + 2)
       ELSE 0

WellFormed(d) == Len(d) > 0 /\ ValueEnd(d, 1) = Len(d)

\* ------------------------------------------------------------------- state
VARIABLES
  doc,              \* the file's tokens
  dec,              \* the json.Decoder of the run
  pc,               \* where the ingestor goroutine stands
  entries,          \* StreamingLoader.entries
  byType,           \* EntryIndex.byType: label -> positions
  byStatus,         \* EntryIndex.byStatus: status -> positions
  slMutex,          \* StreamingLoader.mutex: "free" or "W" (held by the writer)
  entryCount,       \* parseEntries' local entryCount
  decoded,          \* history: the entries Decode(&entry) returned, in order
  notes,            \* history: the callbacks the loader invoked, in order
  lastUpdateCount,  \* Application.lastUpdateCount
  loadingProgress,  \* Application.loadingProgress
  uiQueue,          \* closures queued with QueueUpdateDraw, oldest first
  isLoading,        \* Application.isLoading
  harData,          \* Application.harData: unset (nil), or the first n entries
  filterState,      \* Application.filterState
  filteredEntries,  \* Application.filteredEntries
  shown,            \* the positions listed in Application.requests
  uiPc,             \* where the UI goroutine stands
  uEntries,         \* updateRequestsList's local entries (its length)
  uResult,          \* FilterEntriesWithIndex's local result
  keys,             \* history: filter keys pressed so far
  saved,            \* the entries of the last exported document
  uiLast,           \* history: the last UI operation that finished
  barProgress,      \* the entry count in the bottom bar's "Loading..." text
  panicked,         \* "none", or the runtime panic that ended the process
  evalPc,           \* the step of a stand-alone evaluation ("off": none)
  evalIndexed,      \* a result of FilterEntriesWithIndex
  evalAgain,        \* a result of a second FilterEntriesWithIndex
  evalNaive,        \* the result of FilterEntries
  ia, ib,           \* the arguments of a stand-alone IntersectIndices
  iout,             \* its result
  req,              \* the facts of a request given to the classifier
  reqCors,          \* the result of IsCORSError for it
  reqType,          \* the result of GetRequestType for it
  wv,               \* the WaterfallView, its arguments and what it rendered
  locks             \* the loader lock, the index lock and who stands where

ingestVars == <<doc, dec, pc, entries, byType, byStatus, slMutex, entryCount,
                decoded>>

uiVars == <<isLoading, harData, filterState, filteredEntries, shown, uiPc,
            uEntries, uResult, keys, saved, uiLast, barProgress, panicked>>

vars == <<doc, dec, pc, entries, byType, byStatus, slMutex, entryCount,
          decoded, notes, lastUpdateCount, loadingProgress, uiQueue,
          isLoading, harData, filterState, filteredEntries, shown, uiPc,
          uEntries, uResult, keys, saved, uiLast, barProgress, panicked,
          evalPc, evalIndexed, evalAgain, evalNaive, ia, ib, iout,
          req, reqCors, reqType, wv, locks>>

evalVars == <<evalPc, evalIndexed, evalAgain, evalNaive, ia, ib, iout,
              req, reqCors, reqType, wv, locks>>

At(l) == panicked = "none" /\ pc = l

\* Entry token sequences of at most MaxEntries entries.
RECURSIVE SeqsUpTo(_, _)
SeqsUpTo(S, n) ==
  IF n = 0 THEN {<<>>}
  ELSE LET shorter == SeqsUpTo(S, n - 1) IN
       shorter \cup {Append(s, x) : s \in {t \in shorter : Len(t) = n - 1}, x \in S}

\* The files of the model: every well-formed document, every truncation of
\* one and every one with a single invalid token.
Documents(toks) ==
  LET whole == {HARDocument(es) : es \in SeqsUpTo(toks, MaxEntries)} IN
  whole
  \cup UNION {{Truncated(d, n) : n \in 0..(Len(d) - 1)} : d \in whole}
  \cup UNION {{Corrupted(d, i) : i \in 1..Len(d)} : d \in whole}

\* ---------------------------------------------------------------- ingestor
\* QueueUpdateDraw(f): the closure joins the UI's queue; the caller waits
\* while the queue is full.
QueueHasRoom == Len(uiQueue) < QueueCap

\* OnError with a rollback of the store and the index.
OnErrorRollsBack ==
  /\ QueueHasRoom
  /\ notes' = Append(notes, <<"error", 0>>)
  /\ uiQueue' = Append(uiQueue, "error")
  /\ pc' = "done"
  /\ entries' = <<>>
  /\ byType' = [t \in DOMAIN byType |-> <<>>]
  /\ byStatus' = [st \in DOMAIN byStatus |-> <<>>]
  /\ UNCHANGED <<doc, dec, slMutex, entryCount, decoded, lastUpdateCount,
                 loadingProgress, uiVars, evalVars>>

\* sl.onError(err) -> Application.onLoadingError, then the goroutine returns.
OnError ==
  /\ QueueHasRoom
  /\ notes' = Append(notes, <<"error", 0>>)
  /\ uiQueue' = Append(uiQueue, "error")
  /\ pc' = "done"
  /\ UNCHANGED <<doc, dec, entries, byType, byStatus, slMutex, entryCount,
                 decoded, lastUpdateCount, loadingProgress,
                 uiVars, evalVars>>

\* ParseError without the return after onError: the key loop goes on.
ParseErrorFallsThrough ==
  /\ QueueHasRoom
  /\ notes' = Append(notes, <<"error", 0>>)
  /\ uiQueue' = Append(uiQueue, "error")
  /\ pc' = "top"
  /\ UNCHANGED <<doc, dec, entries, byType, byStatus, slMutex, entryCount,
                 decoded, lastUpdateCount, loadingProgress, uiVars, evalVars>>

\* An error returned by parseLog or parseEntries reaches the same onError.
ParseError == OnError

\* A step of the goroutine that only moves the decoder.
Advance(d, to) ==
  /\ dec' = d
  /\ pc' = to
  /\ UNCHANGED <<doc, entries, byType, byStatus, slMutex, entryCount, decoded,
                 notes, lastUpdateCount, loadingProgress, uiQueue,
                 uiVars, evalVars>>

\* LoadHARFileStreaming: os.Open, the first token, the opening brace.
LoadOpened ==
  /\ At("start")
  /\ LET t == Token(doc, dec) IN
     /\ ~t.err /\ t.val = "{"
     /\ Advance(t.dec, "top")

LoadOpenError ==
  /\ At("start")
  /\ \E openOK \in BOOLEAN :
       LET t == Token(doc, dec) IN
       /\ ~openOK \/ t.err \/ t.val # "{"
       /\ OnError

\* The loop over the top-level keys.
TopLog ==
  /\ At("top") /\ More(doc, dec)
  /\ LET t == Token(doc, dec) IN
     /\ ~t.err /\ t.val = "log"
     /\ Advance(t.dec, "logOpen")

TopSkip ==
  /\ At("top") /\ More(doc, dec)
  /\ LET t == Token(doc, dec) IN
     /\ ~t.err /\ t.val # "log"
     /\ LET v == Decode(doc, t.dec) IN
        /\ ~v.err
        /\ Advance(v.dec, "top")

TopError ==
  /\ At("top") /\ More(doc, dec)
  /\ LET t == Token(doc, dec) IN
     /\ t.err \/ (t.val # "log" /\ Decode(doc, t.dec).err)
     /\ OnError

LoadComplete ==
  /\ At("top") /\ ~More(doc, dec)
  /\ QueueHasRoom
  /\ notes' = Append(notes, <<"complete", 0>>)
  /\ uiQueue' = Append(uiQueue, "complete")
  /\ pc' = "done"
  /\ UNCHANGED <<doc, dec, entries, byType, byStatus, slMutex, entryCount,
                 decoded, lastUpdateCount, loadingProgress,
                 uiVars, evalVars>>

\* parseLog.
LogOpened ==
  /\ At("logOpen")
  /\ LET t == Token(doc, dec) IN
     /\ ~t.err /\ t.val = "{"
     /\ Advance(t.dec, "log")

LogOpenError ==
  /\ At("logOpen")
  /\ LET t == Token(doc, dec) IN
     /\ t.err \/ t.val # "{"
     /\ ParseError

LogEntries ==
  /\ At("log") /\ More(doc, dec)
  /\ LET t == Token(doc, dec) IN
     /\ ~t.err /\ t.val = "entries"
     /\ Advance(t.dec, "entOpen")

LogSkip ==
  /\ At("log") /\ More(doc, dec)
  /\ LET t == Token(doc, dec) IN
     /\ ~t.err /\ t.val # "entries"
     /\ LET v == Decode(doc, t.dec) IN
        /\ ~v.err
        /\ Advance(v.dec, "log")

LogError ==
  /\ At("log") /\ More(doc, dec)
  /\ LET t == Token(doc, dec) IN
     /\ t.err \/ (t.val # "entries" /\ Decode(doc, t.dec).err)
     /\ ParseError

LogReturn ==
  /\ At("log") /\ ~More(doc, dec)
  /\ Advance(dec, "top")

\* parseEntries.
EntriesOpened ==
  /\ At("entOpen")
  /\ LET t == Token(doc, dec) IN
     /\ ~t.err /\ t.val = "["
     /\ dec' = t.dec
     /\ entryCount' = 0
     /\ pc' = "ent"
     /\ UNCHANGED <<doc, entries, byType, byStatus, slMutex, decoded, notes,
                    lastUpdateCount, loadingProgress, uiQueue,
                 uiVars, evalVars>>

EntriesOpenError ==
  /\ At("entOpen")
  /\ LET t == Token(doc, dec) IN
     /\ t.err \/ t.val # "["
     /\ ParseError

\* AppendEntry putting the new entry first.
AppendEntryFront(list, e) == <<e>> \o list

\* Decode(&entry); sl.mutex.Lock(); append; index := len(sl.entries) - 1.
AppendEntry(list, e) == Append(list, e)

ParseEntry ==
  /\ At("ent") /\ More(doc, dec)
  /\ LET r == DecodeEntry(doc, dec) IN
     /\ ~r.err
     /\ slMutex = "free"
     /\ slMutex' = "W"
     /\ dec' = r.dec
     /\ decoded' = Append(decoded, EntryOf(r.val))
     /\ entries' = AppendEntry(entries, EntryOf(r.val))
     /\ pc' = "indexing"
     /\ UNCHANGED <<doc, byType, byStatus, entryCount, notes, lastUpdateCount,
                    loadingProgress, uiQueue,
                 uiVars, evalVars>>

EntryDecodeError ==
  /\ At("ent") /\ More(doc, dec)
  /\ DecodeEntry(doc, dec).err
  /\ ParseError

\* EntryIndex.AddEntry(entry, index), called with sl.mutex held.
IndexAdd(m, key, index) == [m EXCEPT ![key] = Append(@, index)]

AddEntryStatus(bs, entry, index) == IndexAdd(bs, entry.status, index)

\* AddEntryType that indexes successful responses only.
AddEntryTypeOfSuccess(bt, entry, index) ==
  IF entry.status >= 400 THEN bt
  ELSE [bt EXCEPT ![GetRequestType(entry)] = Append(@, index)]

AddEntryType(bt, entry, index) == IndexAdd(bt, GetRequestType(entry), index)

AddEntry ==
  /\ At("indexing")
  /\ LET index == Len(entries) - 1
         entry == entries[Len(entries)]
     IN /\ byStatus' = AddEntryStatus(byStatus, entry, index)
        /\ byType' = AddEntryType(byType, entry, index)
  /\ pc' = "unlock"
  /\ UNCHANGED <<doc, dec, entries, slMutex, entryCount, decoded, notes,
                 lastUpdateCount, loadingProgress, uiQueue,
                 uiVars, evalVars>>

Unlock ==
  /\ At("unlock")
  /\ slMutex' = "free"
  /\ pc' = "added"
  /\ UNCHANGED <<doc, dec, entries, byType, byStatus, entryCount, decoded,
                 notes, lastUpdateCount, loadingProgress, uiQueue,
                 uiVars, evalVars>>

\* A rebuild of the list is queued for every appended entry.
batchDueForEveryEntry(count, last) == count - last >= 1

\* onEntryAdded's test: a whole batch was appended since the last rebuild.
batchDue(count, last) == count - last >= defaultBatchUpdateSize

\* sl.onEntryAdded(entry, index) -> Application.onEntryAdded; entryCount++.
\* The note records the closure handed to QueueUpdateDraw: "update" rebuilds
\* the list and the bottom bar, "bar" redraws the bottom bar only.
EntryAdded ==
  /\ At("added")
  /\ QueueHasRoom
  /\ LET index == Len(entries) - 1
         count == Len(entries)      \* GetEntryCount()
     IN IF batchDue(count, lastUpdateCount)
        THEN /\ lastUpdateCount' = count
             /\ uiQueue' = Append(uiQueue, "update")
             /\ notes' = Append(notes, <<"added", index, "update">>)
        ELSE /\ UNCHANGED lastUpdateCount
             /\ uiQueue' = Append(uiQueue, "bar")
             /\ notes' = Append(notes, <<"added", index, "bar">>)
  /\ entryCount' = entryCount + 1
  /\ pc' = IF (entryCount + 1) % batchSize = 0 THEN "progress" ELSE "ent"
  /\ UNCHANGED <<doc, dec, entries, byType, byStatus, slMutex, decoded,
                 loadingProgress,
                 uiVars, evalVars>>

\* sl.onProgress(entryCount) -> Application.onLoadingProgress.
OnProgress(to) ==
  /\ QueueHasRoom
  /\ notes' = Append(notes, <<"progress", entryCount>>)
  /\ loadingProgress' = entryCount
  /\ uiQueue' = Append(uiQueue, "bar")
  /\ pc' = to
  /\ UNCHANGED <<doc, dec, entries, byType, byStatus, slMutex, entryCount,
                 decoded, lastUpdateCount,
                 uiVars, evalVars>>

Progress == At("progress") /\ OnProgress("ent")

EntriesEnd == At("ent") /\ ~More(doc, dec) /\ OnProgress("log")

Ingest ==
  \/ LoadOpened \/ LoadOpenError
  \/ TopLog \/ TopSkip \/ TopError \/ LoadComplete
  \/ LogOpened \/ LogOpenError \/ LogEntries \/ LogSkip \/ LogError \/ LogReturn
  \/ EntriesOpened \/ EntriesOpenError
  \/ ParseEntry \/ EntryDecodeError \/ AddEntry \/ Unlock \/ EntryAdded
  \/ Progress \/ EntriesEnd

\* ------------------------------------------------------------ index reads
Range(n) == [i \in 1..n |-> i - 1]

\* EntryIndex.GetByType: a copy of the list of the label.
GetByType(bt, requestType) ==
  IF requestType \in DOMAIN bt THEN bt[requestType] ELSE <<>>

RECURSIVE Perms(_)
Perms(S) ==
  IF S = {} THEN {<<>>}
  ELSE UNION {{<<x>> \o q : q \in Perms(S \ {x})} : x \in S}

RECURSIVE ConcatLists(_, _)
ConcatLists(m, order) ==
  IF Len(order) = 0 THEN <<>>
  ELSE m[Head(order)] \o ConcatLists(m, Tail(order))

\* IsErrorStatus without the aborted requests (status 0).
IsErrorStatusAbove400(status) == status >= 400

IsErrorStatus(status) == status >= 400 \/ status = 0

\* EntryIndex.GetErrorIndices: the lists of the error statuses, appended in
\* the order in which range visits the keys of the byStatus map, which Go
\* leaves unspecified: every order is a possible result.
GetErrorIndices(bs) ==
  LET present == {st \in DOMAIN bs : Len(bs[st]) > 0 /\ IsErrorStatus(st)} IN
  {ConcatLists(bs, order) : order \in Perms(present)}

\* matchesTextSearch (the same code in EntryIndex and in FilterState), over
\* the URL host; searchText is already lower case.
matchesTextSearch(entry, searchText) ==
  Contains(ToLower(entry.host), searchText)

\* EntryIndex.FilterByText.
FilterByText(ents, text) ==
  IF text = <<>> THEN Range(Len(ents))
  ELSE LET match(i) == matchesTextSearch(ents[i + 1], ToLower(text)) IN
       SelectSeq(Range(Len(ents)), match)

\* util.IntersectIndices: the set of a as a map, then one pass over b.
RECURSIVE BuildSetA(_, _)
BuildSetA(a, setA) ==
  IF Len(a) = 0 THEN setA
  ELSE BuildSetA(Tail(a), setA \cup {Head(a)})

RECURSIVE ProbeB(_, _, _)
ProbeB(setA, b, result) ==
  IF Len(b) = 0 THEN result
  ELSE ProbeB(setA, Tail(b),
              IF Head(b) \in setA THEN Append(result, Head(b)) ELSE result)

\* IntersectIndices with the roles of a and b exchanged.
IntersectIndicesProbingA(a, b) ==
  IF Len(a) = 0 \/ Len(b) = 0 THEN <<>>
  ELSE ProbeB(BuildSetA(b, {}), a, <<>>)

IntersectIndices(a, b) ==
  IF Len(a) = 0 \/ Len(b) = 0 THEN <<>>
  ELSE ProbeB(BuildSetA(a, {}), b, <<>>)

\* ------------------------------------------------------------------ filter
NewFilterState ==
  [FilterText |-> <<>>, ShowErrorsOnly |-> FALSE, SortBySlowest |-> FALSE,
   ActiveTypeFilter |-> "all"]

\* sort.Slice(result, less) with less(i, j) = Time[result[i]] > Time[result[j]]:
\* for slices this short Go sorts by insertion.
InsertSlowest(acc, x, ents) ==
  LET notLess == {i \in 1..Len(acc) : ents[acc[i] + 1].time >= ents[x + 1].time}
      k == IF notLess = {} THEN 0
           ELSE CHOOSE i \in notLess : \A j \in notLess : j <= i
  IN SubSeq(acc, 1, k) \o <<x>> \o SubSeq(acc, k + 1, Len(acc))

RECURSIVE SortSlice(_, _, _)
SortSlice(acc, rest, ents) ==
  IF Len(rest) = 0 THEN acc
  ELSE SortSlice(InsertSlowest(acc, Head(rest), ents), Tail(rest), ents)

\* FilterEntries whose error filter forgets that status 0 is an error.
FilterEntriesStatusZeroPasses(f, ents) ==
  LET keep(i) ==
        LET entry == ents[i + 1] IN
        /\ ~(f.ShowErrorsOnly /\ entry.status < 400)
        /\ (f.FilterText # <<>>
              => matchesTextSearch(entry, ToLower(f.FilterText)))
        /\ (f.ActiveTypeFilter # "all"
              => GetRequestType(entry) = f.ActiveTypeFilter)
      kept == SelectSeq(Range(Len(ents)), keep)
  IN IF f.SortBySlowest THEN SortSlice(<<>>, kept, ents) ELSE kept

\* FilterState.FilterEntries: one scan over the entries, then the sort.
FilterEntries(f, ents) ==
  LET keep(i) ==
        LET entry == ents[i + 1] IN
        /\ ~(f.ShowErrorsOnly /\ entry.status < 400 /\ entry.status # 0)
        /\ (f.FilterText # <<>>
              => matchesTextSearch(entry, ToLower(f.FilterText)))
        /\ (f.ActiveTypeFilter # "all"
              => GetRequestType(entry) = f.ActiveTypeFilter)
      kept == SelectSeq(Range(Len(ents)), keep)
  IN IF f.SortBySlowest THEN SortSlice(<<>>, kept, ents) ELSE kept

\* FilterEntriesWithIndex, first part: all positions or the type's list.
FilterBaseSet(f, ents, bt) ==
  IF f.ActiveTypeFilter = "all" THEN Range(Len(ents))
  ELSE GetByType(bt, f.ActiveTypeFilter)

\* Second part: the error filter; one result per possible error list.
FilterErrorSet(f, result, bs) ==
  IF f.ShowErrorsOnly
  THEN {IntersectIndices(result, errorIndices) : errorIndices \in GetErrorIndices(bs)}
  ELSE {result}

\* Third part: the text filter.
FilterTextSet(f, ents, result) ==
  IF f.FilterText # <<>>
  THEN IntersectIndices(result, FilterByText(ents, f.FilterText))
  ELSE result

\* The sort reads entries[result[i]] for every element once there are two.
SortPanics(f, ents, result) ==
  /\ f.SortBySlowest
  /\ Len(result) >= 2
  /\ \E i \in 1..Len(result) : result[i] >= Len(ents)

FilterSorted(f, ents, result) ==
  IF f.SortBySlowest THEN SortSlice(<<>>, result, ents) ELSE result

\* Every result FilterEntriesWithIndex can return on a quiescent store.
FilterEntriesWithIndex(f, ents, bt, bs) ==
  {FilterSorted(f, ents, FilterTextSet(f, ents, r)) :
     r \in FilterErrorSet(f, FilterBaseSet(f, ents, bt), bs)}

\* ---------------------------------------------------------------------- UI
UiAt(l) == panicked = "none" /\ uiPc = l

loaderVars == <<doc, dec, pc, entries, byType, byStatus, slMutex, entryCount,
                decoded, notes, lastUpdateCount, loadingProgress>>

\* The loop at the end of updateRequestsList: positions beyond the entries
\* at hand are skipped.
ListItems(filtered, n) ==
  LET inRange(idx) == idx < n IN SelectSeq(filtered, inRange)

\* StreamingLoader.GetEntries(): the slice as it is now (shared lock).
GetEntries == entries

\* updateBottomBar's status text: while loading it prints loadingProgress
\* ("Starting load..." for 0), afterwards no progress count.
updateBottomBar(loading) ==
  barProgress' = IF loading THEN loadingProgress ELSE 0

\* updateRequestsList up to its first read of the index, and the
\* updateBottomBar that every caller runs after it.  loading and hd are
\* isLoading and harData as the caller left them.
updateRequestsList(f, loading, hd) ==
  IF loading
  THEN /\ slMutex = "free"
       /\ IF Len(GetEntries) > 0
          THEN /\ uEntries' = Len(GetEntries)
               /\ uResult' = <<>>
               /\ shown' = <<>>
               /\ uiPc' = "base"
               /\ UNCHANGED <<filteredEntries, uiLast, barProgress>>
          ELSE /\ filteredEntries' = <<>>
               /\ shown' = <<>>
               /\ uiPc' = "idle"
               /\ uiLast' = "update"
               /\ updateBottomBar(loading)
               /\ UNCHANGED <<uEntries, uResult>>
  ELSE IF hd.set
  THEN /\ filteredEntries' = FilterEntries(f, SubSeq(entries, 1, hd.n))
       /\ shown' = ListItems(filteredEntries', hd.n)
       /\ uiPc' = "idle"
       /\ uiLast' = "update"
       /\ updateBottomBar(loading)
       /\ UNCHANGED <<uEntries, uResult>>
  ELSE /\ shown' = <<>>
       /\ uiPc' = "idle"
       /\ uiLast' = "update"
       /\ updateBottomBar(loading)
       /\ UNCHANGED <<filteredEntries, uEntries, uResult>>

\* FilterEntriesWithIndex: the base set, read from the index now.
FilterBase ==
  /\ UiAt("base")
  /\ uResult' = FilterBaseSet(filterState, SubSeq(entries, 1, uEntries), byType)
  /\ uiPc' = "rest"
  /\ UNCHANGED <<loaderVars, evalVars, uiQueue, isLoading, harData, filterState,
                 filteredEntries, shown, uEntries, keys, saved, uiLast,
                 barProgress, panicked>>

\* The error filter (read from the index now), the text filter, the sort,
\* the list, and the caller's updateBottomBar.
FilterRest ==
  /\ UiAt("rest")
  /\ LET ents == SubSeq(entries, 1, uEntries) IN
     \E r \in FilterErrorSet(filterState, uResult, byStatus) :
       LET t == FilterTextSet(filterState, ents, r) IN
       IF SortPanics(filterState, ents, t)
       THEN /\ panicked' = "index out of range"
            /\ UNCHANGED <<filteredEntries, shown, uiPc, uiLast, barProgress>>
       ELSE /\ filteredEntries' = FilterSorted(filterState, ents, t)
            /\ shown' = ListItems(filteredEntries', uEntries)
            /\ uiPc' = "idle"
            /\ uiLast' = "update"
            /\ updateBottomBar(isLoading)
            /\ UNCHANGED panicked
  /\ UNCHANGED <<loaderVars, evalVars, uiQueue, isLoading, harData, filterState,
                 uEntries, uResult, keys, saved>>

\* Application.Run: the first updateRequestsList, after the load started.
Run ==
  /\ UiAt("run")
  /\ updateRequestsList(filterState, isLoading, harData)
  /\ UNCHANGED <<loaderVars, evalVars, uiQueue, isLoading, harData, filterState, keys,
                 saved, panicked>>

\* The closures of the queue, run by the event loop one at a time.
DrawBottomBar ==
  /\ UiAt("idle")
  /\ Len(uiQueue) > 0 /\ Head(uiQueue) = "bar"
  /\ uiQueue' = Tail(uiQueue)
  /\ updateBottomBar(isLoading)
  /\ UNCHANGED <<loaderVars, evalVars, isLoading, harData, filterState,
                 filteredEntries, shown, uiPc, uEntries, uResult, keys, saved,
                 uiLast, panicked>>

\* onEntryAdded's closure for a full batch.
DrawUpdate ==
  /\ UiAt("idle")
  /\ Len(uiQueue) > 0 /\ Head(uiQueue) = "update"
  /\ uiQueue' = Tail(uiQueue)
  /\ updateRequestsList(filterState, isLoading, harData)
  /\ UNCHANGED <<loaderVars, evalVars, isLoading, harData, filterState, keys, saved,
                 panicked>>

\* A completion that leaves the list as the last batch update drew it.
onLoadingCompleteWithoutRefresh ==
  /\ UiAt("idle")
  /\ Len(uiQueue) > 0 /\ Head(uiQueue) = "complete"
  /\ slMutex = "free"
  /\ uiQueue' = Tail(uiQueue)
  /\ isLoading' = FALSE
  /\ harData' = [set |-> TRUE, n |-> Len(GetEntries)]
  /\ uiLast' = "update"
  /\ UNCHANGED <<loaderVars, evalVars, filterState, filteredEntries, shown,
                 uiPc, uEntries, uResult, keys, saved, barProgress, panicked>>

\* onLoadingComplete's closure.
onLoadingComplete ==
  /\ UiAt("idle")
  /\ Len(uiQueue) > 0 /\ Head(uiQueue) = "complete"
  /\ slMutex = "free"
  /\ uiQueue' = Tail(uiQueue)
  /\ isLoading' = FALSE
  /\ harData' = [set |-> TRUE, n |-> Len(GetEntries)]
  /\ updateRequestsList(filterState, FALSE, harData')
  /\ UNCHANGED <<loaderVars, evalVars, filterState, keys, saved, panicked>>

\* onLoadingError's closure.
onLoadingError ==
  /\ UiAt("idle")
  /\ Len(uiQueue) > 0 /\ Head(uiQueue) = "error"
  /\ uiQueue' = Tail(uiQueue)
  /\ isLoading' = FALSE
  /\ uiLast' = "error"
  /\ UNCHANGED <<loaderVars, evalVars, harData, filterState, filteredEntries,
                 shown, uiPc, uEntries, uResult, keys, saved, barProgress,
                 panicked>>

\* A key that changes the filter and calls updateRequestsList.
KeyFilter(f) ==
  /\ UiAt("idle")
  /\ keys < MaxKeys
  /\ keys' = keys + 1
  /\ filterState' = f
  /\ updateRequestsList(f, isLoading, harData)
  /\ UNCHANGED <<loaderVars, evalVars, uiQueue, isLoading, harData, saved, panicked>>

\* 'e': ToggleErrorsOnly.
KeyErrors ==
  KeyFilter([filterState EXCEPT !.ShowErrorsOnly = ~@])

\* 's': ToggleSortBySlowest.
KeySort ==
  KeyFilter([filterState EXCEPT !.SortBySlowest = ~@])

\* 'l' and 'h': the next and the previous type filter.
TypeFilterIndex(t) == CHOOSE i \in 1..Len(TypeFilters) : TypeFilters[i] = t

KeyType ==
  \E step \in {1, Len(TypeFilters) - 1} :
    KeyFilter([filterState EXCEPT !.ActiveTypeFilter =
      TypeFilters[((TypeFilterIndex(@) - 1 + step) % Len(TypeFilters)) + 1]])

\* The search input: SetTextFilter(text).
SearchTexts == {<<"a">>, <<"A", "b">>}

KeySearch ==
  \E text \in SearchTexts :
    KeyFilter([filterState EXCEPT !.FilterText = text])

\* har.SaveFilteredHAR: the entries at the filtered positions that exist.
SaveFilteredHAR(ents, filteredIndices) ==
  LET inRange(idx) == idx >= 0 /\ idx < Len(ents)
      kept == SelectSeq(filteredIndices, inRange)
  IN [i \in 1..Len(kept) |-> ents[kept[i] + 1]]

\* 'S': saveFilteredHAR.  While loading the entries come from the loader,
\* afterwards from harData, which the call dereferences.
KeySave ==
  /\ UiAt("idle")
  /\ IF isLoading
     THEN /\ slMutex = "free"
          /\ saved' = SaveFilteredHAR(GetEntries, filteredEntries)
          /\ uiLast' = "save"
          /\ UNCHANGED panicked
     ELSE IF harData.set
     THEN /\ saved' = SaveFilteredHAR(SubSeq(entries, 1, harData.n),
                                      filteredEntries)
          /\ uiLast' = "save"
          /\ UNCHANGED panicked
     ELSE /\ panicked' = "nil pointer dereference"
          /\ UNCHANGED <<saved, uiLast>>
  /\ UNCHANGED <<loaderVars, evalVars, uiQueue, isLoading, harData, filterState,
                 filteredEntries, shown, uiPc, uEntries, uResult, keys,
                 barProgress>>

\* 'b', 'c', 'R', 'm', 'y': a key that acts on the selected entry.  The row
\* comes from the list (row 0 when it is empty); the entry is read from
\* harData.Log.Entries, loading or not.
KeyEntry ==
  /\ UiAt("idle")
  /\ \E currentIndex \in 0..(IF shown = <<>> THEN 0 ELSE Len(shown) - 1) :
       IF currentIndex < Len(filteredEntries)
       THEN IF ~harData.set
            THEN /\ panicked' = "nil pointer dereference in handleInput"
                 /\ UNCHANGED uiLast
            ELSE IF filteredEntries[currentIndex + 1] >= harData.n
            THEN /\ panicked' = "index out of range"
                 /\ UNCHANGED uiLast
            ELSE /\ uiLast' = "entry"
                 /\ UNCHANGED panicked
       ELSE UNCHANGED <<uiLast, panicked>>
  /\ UNCHANGED <<loaderVars, evalVars, uiQueue, isLoading, harData, filterState,
                 filteredEntries, shown, uiPc, uEntries, uResult, keys, saved,
                 barProgress>>

UI ==
  \/ Run \/ FilterBase \/ FilterRest
  \/ DrawBottomBar \/ DrawUpdate \/ onLoadingComplete \/ onLoadingError
  \/ KeyErrors \/ KeySort \/ KeyType \/ KeySearch \/ KeySave \/ KeyEntry

\* NewWaterfallView: nothing to draw, the default chart width, no render.
defaultChartWidth == 80

ZeroTime == -1

\* The view as NewWaterfallView builds it.  viewWidth is the width
\* GetInnerRect reports, 0 until the view has been laid out; asked alternates
\* with every zoom request and refused tells whether the last one was turned
\* down.
NewWaterfallView ==
  [entries |-> <<>>, filtered |-> <<>>, indices |-> <<>>,
   startTime |-> ZeroTime, maxDuration |-> 0,
   chartWidth |-> defaultChartWidth, renders |-> <<>>,
   showDetails |-> FALSE, manuallyResized |-> FALSE, viewWidth |-> 0,
   asked |-> 0, refused |-> FALSE]

\* No request is being classified.
NoRequest ==
  /\ req = FactsOf(E1)
  /\ reqCors = FALSE
  /\ reqType = ""

\* ------------------------------------------------------------ the two locks

\* A sync.RWMutex: the writer is absent, announced ("pending": it waits for
\* the readers inside to leave) or inside ("held"); readers holds the
\* goroutines reading, blocked those that arrived behind a writer.
NewRWMutex == [writer |-> "none", readers |-> {}, blocked |-> {}]

\* RWMutex.RLock: a reader enters unless a writer is announced or inside.
RLock(m, g) ==
  IF m.writer = "none" THEN [m EXCEPT !.readers = @ \cup {g}]
  ELSE [m EXCEPT !.blocked = @ \cup {g}]

\* An RUnlock that leaves the reader inside.
RUnlockForgotten(m, g) == m

\* RWMutex.RUnlock: the last reader to leave lets the announced writer in.
RUnlock(m, g) ==
  LET rest == m.readers \ {g}
  IN [m EXCEPT !.readers = rest,
               !.writer = IF @ = "pending" /\ rest = {} THEN "held" ELSE @]

\* RWMutex.Lock, there being one writer (the ingestor) per lock.
Lock(m) ==
  [m EXCEPT !.writer = IF m.readers = {} THEN "held" ELSE "pending"]

\* RWMutex.Unlock: the readers that arrived behind the writer all enter.
WUnlock(m) == [m EXCEPT !.writer = "none", !.readers = m.blocked, !.blocked = {}]

\* The ingestor goroutine and the goroutine of the UI's event loop.
Goroutines == {"ingestor", "ui"}

\* The getters of the index FilterEntriesWithIndex calls, in its order: GetByType
\* under a type filter, GetErrorIndices under the errors-only filter.
GetterCalls ==
  {<<>>, <<"GetByType">>, <<"GetErrorIndices">>,
   <<"GetByType", "GetErrorIndices">>}

\* StreamingLoader.mutex (sl), EntryIndex.mutex (idx), where each goroutine
\* stands, the getters the UI has still to call and how many entries have
\* been appended.
NewLocks ==
  [sl |-> NewRWMutex, idx |-> NewRWMutex,
   at |-> [g \in Goroutines |-> IF g = "ui" THEN "idle" ELSE "decode"],
   getters |-> <<>>, appended |-> 0]

LocksUnchanged ==
  UNCHANGED <<loaderVars, uiQueue, uiVars, evalPc, evalIndexed, evalAgain,
              evalNaive, ia, ib, iout, req, reqCors, reqType, wv>>

\* parseEntries: sl.mutex.Lock() after an entry is decoded.
LoaderLock ==
  /\ locks.at["ingestor"] = "decode"
  /\ locks.appended < MaxLockEntries
  /\ locks' = [locks EXCEPT !.sl = Lock(@), !.at["ingestor"] = "append"]
  /\ LocksUnchanged

\* parseEntries appends and calls AddEntry: idx.mutex.Lock().
IndexLock ==
  /\ locks.at["ingestor"] = "append"
  /\ locks.sl.writer = "held"
  /\ locks' = [locks EXCEPT !.idx = Lock(@), !.at["ingestor"] = "index"]
  /\ LocksUnchanged

\* AddEntry fills the maps and returns: the deferred idx.mutex.Unlock().
IndexUnlock ==
  /\ locks.at["ingestor"] = "index"
  /\ locks.idx.writer = "held"
  /\ locks' = [locks EXCEPT !.idx = WUnlock(@), !.at["ingestor"] = "unlock"]
  /\ LocksUnchanged

\* parseEntries: sl.mutex.Unlock(), then the onEntryAdded callback.
LoaderUnlock ==
  /\ locks.at["ingestor"] = "unlock"
  /\ locks' = [locks EXCEPT !.sl = WUnlock(@), !.appended = @ + 1,
                            !.at["ingestor"] = "callback"]
  /\ LocksUnchanged

\* GetEntries and GetEntryCount: sl.mutex.RLock(). The UI calls them when it
\* rebuilds the list, the ingestor in onEntryAdded.
LoaderRLock(g) ==
  /\ locks.at[g] = IF g = "ui" THEN "idle" ELSE "callback"
  /\ locks' = [locks EXCEPT !.sl = RLock(@, g), !.at[g] = "reading"]
  /\ LocksUnchanged

\* GetEntries and GetEntryCount return: the deferred sl.mutex.RUnlock(). The
\* UI goes on to filter, the ingestor to decode the next entry.
LoaderRUnlock(g) ==
  /\ locks.at[g] = "reading"
  /\ g \in locks.sl.readers
  /\ \E calls \in GetterCalls :
       locks' = [locks EXCEPT
                   !.sl = RUnlock(@, g),
                   !.getters = IF g = "ui" THEN calls ELSE @,
                   !.at[g] = IF g # "ui" THEN "decode"
                             ELSE IF calls = <<>> THEN "idle" ELSE "filter"]
  /\ LocksUnchanged

\* FilterEntriesWithIndex calls a getter of the index: idx.mutex.RLock().
IndexRLock ==
  /\ locks.at["ui"] = "filter"
  /\ locks' = [locks EXCEPT !.idx = RLock(@, "ui"), !.at["ui"] = "lookup"]
  /\ LocksUnchanged

\* The getter returns: the deferred idx.mutex.RUnlock().
IndexRUnlock ==
  /\ locks.at["ui"] = "lookup"
  /\ "ui" \in locks.idx.readers
  /\ locks' = [locks EXCEPT
                !.idx = RUnlock(@, "ui"),
                !.getters = Tail(@),
                !.at["ui"] = IF Tail(locks.getters) = <<>> THEN "idle"
                             ELSE "filter"]
  /\ LocksUnchanged

IngestorLocks ==
  \/ LoaderLock
  \/ IndexLock
  \/ IndexUnlock
  \/ LoaderUnlock
  \/ LoaderRLock("ingestor")
  \/ LoaderRUnlock("ingestor")

\* What the UI does once GetEntries has been called.
UILocksProgress ==
  \/ LoaderRUnlock("ui")
  \/ IndexRLock
  \/ IndexRUnlock

NextLocks ==
  \/ IngestorLocks
  \/ LoaderRLock("ui")
  \/ UILocksProgress

\* ----------------------------------------------------------- specification
\* NewApplicationStreaming, NewStreamingLoader and NewEntryIndex, and a file.
Init ==
  /\ doc \in Documents({"E1", "E2"})
  /\ dec = NewDecoder
  /\ pc = "start"
  /\ entries = <<>>
  /\ byType = [t \in Types |-> <<>>]
  /\ byStatus = [st \in Statuses |-> <<>>]
  /\ slMutex = "free"
  /\ entryCount = 0
  /\ decoded = <<>>
  /\ notes = <<>>
  /\ lastUpdateCount = 0
  /\ loadingProgress = 0
  /\ uiQueue = <<>>
  /\ isLoading = TRUE
  /\ harData = [set |-> FALSE, n |-> 0]
  /\ filterState = NewFilterState
  /\ filteredEntries = <<>>
  /\ shown = <<>>
  /\ uiPc = "run"
  /\ uEntries = 0
  /\ uResult = <<>>
  /\ keys = 0
  /\ saved = <<>>
  /\ uiLast = "none"
  /\ barProgress = 0
  /\ panicked = "none"
  /\ evalPc = "off"
  /\ evalIndexed = <<>>
  /\ evalAgain = <<>>
  /\ evalNaive = <<>>
  /\ ia = <<>>
  /\ ib = <<>>
  /\ iout = <<>>
  /\ NoRequest
  /\ wv = NewWaterfallView
  /\ locks = NewLocks

Next == Ingest \/ UI

Spec == Init /\ [][Next]_vars

\* ------------------------------------------------- stand-alone evaluation
\* The index after AddEntry for every entry of ents, in order.
RECURSIVE IndexAllTypes(_, _, _), IndexAllStatuses(_, _, _)
IndexAllTypes(ents, k, bt) ==
  IF k >= Len(ents) THEN bt
  ELSE IndexAllTypes(ents, k + 1, AddEntryType(bt, ents[k + 1], k))

IndexAllStatuses(ents, k, bs) ==
  IF k >= Len(ents) THEN bs
  ELSE IndexAllStatuses(ents, k + 1, AddEntryStatus(bs, ents[k + 1], k))

FilterStates ==
  [FilterText : {<<>>} \cup SearchTexts, ShowErrorsOnly : BOOLEAN,
   SortBySlowest : BOOLEAN, ActiveTypeFilter : {TypeFilters[i] : i \in 1..Len(TypeFilters)}]

\* Everything of the application that a stand-alone evaluation leaves alone.
Idle ==
  /\ doc = <<>>
  /\ dec = NewDecoder
  /\ pc = "off"
  /\ slMutex = "free"
  /\ entryCount = 0
  /\ decoded = <<>>
  /\ notes = <<>>
  /\ lastUpdateCount = 0
  /\ loadingProgress = 0
  /\ uiQueue = <<>>
  /\ isLoading = FALSE
  /\ harData = [set |-> FALSE, n |-> 0]
  /\ filteredEntries = <<>>
  /\ shown = <<>>
  /\ uiPc = "off"
  /\ uEntries = 0
  /\ uResult = <<>>
  /\ keys = 0
  /\ saved = <<>>
  /\ uiLast = "none"
  /\ barProgress = 0
  /\ panicked = "none"

\* A store whose entries are all indexed, and a FilterState.
InitFilter ==
  /\ Idle
  /\ \E toks \in SeqsUpTo(EntryTokens, MaxFilterEntries) :
       entries = [i \in 1..Len(toks) |-> EntryOf(toks[i])]
  /\ byType = IndexAllTypes(entries, 0, [t \in Types |-> <<>>])
  /\ byStatus = IndexAllStatuses(entries, 0, [st \in Statuses |-> <<>>])
  /\ filterState \in FilterStates
  /\ evalPc = "indexed"
  /\ evalIndexed = <<>>
  /\ evalAgain = <<>>
  /\ evalNaive = <<>>
  /\ ia = <<>>
  /\ ib = <<>>
  /\ iout = <<>>
  /\ NoRequest
  /\ wv = NewWaterfallView
  /\ locks = NewLocks

EvalUnchanged ==
  UNCHANGED <<loaderVars, uiQueue, isLoading, harData, filterState,
              filteredEntries, shown, uiPc, uEntries, uResult, keys, saved,
              uiLast, barProgress, panicked, ia, ib, req, reqCors, reqType,
              wv, locks>>

EvalIndexed ==
  /\ evalPc = "indexed"
  /\ evalIndexed' \in FilterEntriesWithIndex(filterState, entries, byType, byStatus)
  /\ evalPc' = "again"
  /\ UNCHANGED <<evalAgain, evalNaive, iout>>
  /\ EvalUnchanged

EvalAgain ==
  /\ evalPc = "again"
  /\ evalAgain' \in FilterEntriesWithIndex(filterState, entries, byType, byStatus)
  /\ evalPc' = "naive"
  /\ UNCHANGED <<evalIndexed, evalNaive, iout>>
  /\ EvalUnchanged

EvalNaive ==
  /\ evalPc = "naive"
  /\ evalNaive' = FilterEntries(filterState, entries)
  /\ evalPc' = "done"
  /\ UNCHANGED <<evalIndexed, evalAgain, iout>>
  /\ EvalUnchanged

NextFilter == EvalIndexed \/ EvalAgain \/ EvalNaive

SpecFilter == InitFilter /\ [][NextFilter]_vars

\* Two integer lists.
InitIntersect ==
  /\ Idle
  /\ entries = <<>>
  /\ byType = [t \in Types |-> <<>>]
  /\ byStatus = [st \in Statuses |-> <<>>]
  /\ filterState = NewFilterState
  /\ evalPc = "intersect"
  /\ evalIndexed = <<>>
  /\ evalAgain = <<>>
  /\ evalNaive = <<>>
  /\ ia \in SeqsUpTo(0..MaxPos, MaxListLen)
  /\ ib \in SeqsUpTo(0..MaxPos, MaxListLen)
  /\ iout = <<>>
  /\ NoRequest
  /\ wv = NewWaterfallView
  /\ locks = NewLocks

EvalIntersect ==
  /\ evalPc = "intersect"
  /\ iout' = IntersectIndices(ia, ib)
  /\ evalPc' = "done"
  /\ UNCHANGED <<evalIndexed, evalAgain, evalNaive>>
  /\ EvalUnchanged

NextIntersect == EvalIntersect

SpecIntersect == InitIntersect /\ [][NextIntersect]_vars

\* Index lists as they arise from one pass over the store: non-decreasing.
IsNonDecreasing(list) == \A i \in 1..(Len(list) - 1) : list[i] <= list[i + 1]

\* Two non-decreasing lists, long enough for the documented examples.
InitIntersectExample ==
  /\ Idle
  /\ entries = <<>>
  /\ byType = [t \in Types |-> <<>>]
  /\ byStatus = [st \in Statuses |-> <<>>]
  /\ filterState = NewFilterState
  /\ evalPc = "intersect"
  /\ evalIndexed = <<>>
  /\ evalAgain = <<>>
  /\ evalNaive = <<>>
  /\ ia \in {l \in SeqsUpTo(1..MaxExamplePos, MaxExampleLen) : IsNonDecreasing(l)}
  /\ ib \in {l \in SeqsUpTo(1..MaxExamplePos, MaxExampleLen) : IsNonDecreasing(l)}
  /\ iout = <<>>
  /\ NoRequest
  /\ wv = NewWaterfallView
  /\ locks = NewLocks

SpecIntersectExample == InitIntersectExample /\ [][NextIntersect]_vars

\* ------------------------------------------------------------ sort.Slice
\* sort.Slice sorts a slice of at most this many elements by insertion; a
\* longer slice is partitioned around a pivot first, and the documentation
\* leaves the order of equal elements open ("not guaranteed to be stable").
insertionSortLimit == 12

\* Every arrangement of a sorted list that differs only in the order of
\* positions with equal time.
RECURSIVE TieOrders(_, _)
TieOrders(sorted, ents) ==
  IF Len(sorted) = 0 THEN {<<>>}
  ELSE LET t == ents[sorted[1] + 1].time
           isTie(p) == ents[p + 1].time = t
           group == SelectSeq(sorted, isTie)
           rest == SubSeq(sorted, Len(group) + 1, Len(sorted))
       IN {g \o r : g \in Perms({group[i] : i \in 1..Len(group)}),
                    r \in TieOrders(rest, ents)}

\* The results sort.Slice(result, less) can leave in result.
sortSlice(result, ents) ==
  IF Len(result) <= insertionSortLimit
  THEN {SortSlice(<<>>, result, ents)}
  ELSE TieOrders(SortSlice(<<>>, result, ents), ents)

\* FilterEntries and FilterEntriesWithIndex on a store of any length: the
\* scan or the index lookups, then sort.Slice.
FilterEntriesAnyLength(f, ents) ==
  LET kept == FilterEntries([f EXCEPT !.SortBySlowest = FALSE], ents) IN
  IF f.SortBySlowest THEN sortSlice(kept, ents) ELSE {kept}

FilterEntriesWithIndexAnyLength(f, ents, bt, bs) ==
  LET unsorted == FilterEntriesWithIndex([f EXCEPT !.SortBySlowest = FALSE],
                                         ents, bt, bs)
  IN IF f.SortBySlowest THEN UNION {sortSlice(r, ents) : r \in unsorted}
     ELSE unsorted

\* A store of n entries with distinct times, except that the entries at
\* positions i and j take the same time; k rotates the distinct times.
TimedEntries(n, i, j, k) ==
  [p \in 1..n |->
     HAREntry(200, FALSE, "document",
              IF p - 1 \in {i, j} THEN 5 ELSE (((p - 1 + k) % n) + 1) * 10,
              <<"a">>)]

InitSort ==
  /\ Idle
  /\ \E n \in insertionSortLimit..(insertionSortLimit + MaxSortExtra) :
       \E i \in 0..(n - 1), j \in 0..(n - 1), k \in 0..(n - 1) :
         i < j /\ entries = TimedEntries(n, i, j, k)
  /\ byType = IndexAllTypes(entries, 0, [t \in Types |-> <<>>])
  /\ byStatus = IndexAllStatuses(entries, 0, [st \in Statuses |-> <<>>])
  /\ filterState = [NewFilterState EXCEPT !.SortBySlowest = TRUE]
  /\ evalPc = "sortNaive"
  /\ evalIndexed = <<>>
  /\ evalAgain = <<>>
  /\ evalNaive = <<>>
  /\ ia = <<>>
  /\ ib = <<>>
  /\ iout = <<>>
  /\ NoRequest
  /\ wv = NewWaterfallView
  /\ locks = NewLocks

EvalSortNaive ==
  /\ evalPc = "sortNaive"
  /\ evalNaive' \in FilterEntriesAnyLength(filterState, entries)
  /\ evalPc' = "sortIndexed"
  /\ UNCHANGED <<evalIndexed, evalAgain, iout>>
  /\ EvalUnchanged

EvalSortIndexed ==
  /\ evalPc = "sortIndexed"
  /\ evalIndexed' \in FilterEntriesWithIndexAnyLength(filterState, entries,
                                                      byType, byStatus)
  /\ evalPc' = "done"
  /\ UNCHANGED <<evalNaive, evalAgain, iout>>
  /\ EvalUnchanged

NextSort == EvalSortNaive \/ EvalSortIndexed

SpecSort == InitSort /\ [][NextSort]_vars

\* ------------------------------------------------- stand-alone classifier
\* The requests given to IsCORSError: every combination of the facts it
\* reads, with a plain http URL.
CORSRequests ==
  {RequestFacts(status, method, acrm, origin, sfm, urlOK, "http", host, "/x",
                referer, reqJSON, "", "", FALSE) :
     status \in {0, 200}, method \in {"GET", "POST", "OPTIONS"},
     acrm \in BOOLEAN, origin \in BOOLEAN,
     sfm \in {"", "cors", "CORS", "navigate"}, urlOK \in BOOLEAN,
     host \in {"", "a"}, referer \in {"none", "bad", "", "a", "b"},
     reqJSON \in BOOLEAN}

\* The requests given to GetRequestType: every combination of the facts its
\* own rules read, for requests that are CORS failures and requests that are
\* not.
TypeRequests ==
  {RequestFacts(status, "GET", FALSE, origin, "", urlOK, scheme, "a", path,
                "none", FALSE, resourceType, contentType, xhr) :
     status \in {0, 200}, origin \in BOOLEAN, urlOK \in BOOLEAN,
     scheme \in {"http", "wss"},
     path \in {"", "/", "/x", "/x.css", "/api/x", "/api/x.js"},
     resourceType \in {"", "Image", "font", "websocket"},
     contentType \in {"", "Text/CSS", "application/json", "text/plain"},
     xhr \in BOOLEAN}

InitClassify(requests) ==
  /\ Idle
  /\ entries = <<>>
  /\ byType = [t \in Types |-> <<>>]
  /\ byStatus = [st \in Statuses |-> <<>>]
  /\ filterState = NewFilterState
  /\ evalPc = "classify"
  /\ wv = NewWaterfallView
  /\ locks = NewLocks
  /\ evalIndexed = <<>>
  /\ evalAgain = <<>>
  /\ evalNaive = <<>>
  /\ ia = <<>>
  /\ ib = <<>>
  /\ iout = <<>>
  /\ req \in requests
  /\ reqCors = FALSE
  /\ reqType = ""

\* IsCORSError(entry) and GetRequestType(entry) for the request at hand.
EvalClassify ==
  /\ evalPc = "classify"
  /\ reqCors' = IsCORSErrorOf(req)
  /\ reqType' = GetRequestTypeOf(req)
  /\ evalPc' = "done"
  /\ UNCHANGED <<loaderVars, uiQueue, isLoading, harData, filterState,
                 filteredEntries, shown, uiPc, uEntries, uResult, keys, saved,
                 uiLast, barProgress, panicked, evalIndexed, evalAgain,
                 evalNaive, ia, ib, iout, req, wv, locks>>

NextClassify == EvalClassify

SpecCORS == InitClassify(CORSRequests) /\ [][NextClassify]_vars

SpecType == InitClassify(TypeRequests) /\ [][NextClassify]_vars

\* --------------------------------------------------------- waterfall view
\* Timing thresholds and bar widths of the waterfall (milliseconds, columns).
smallTimespanMs == 100
largeTimespanMs == 10000
staggerOffset == 2
minBarWidthThreshold == 5
minDurationForScaling == 20
minBarWidthLarge == 3
minBarWidthSmall == 2

\* durationScalingFactor = 0.8, in tenths.
durationScalingTenths == 8

\* Instants a StartedDateTime may name: milliseconds on the file's time axis.
StartTimes == {0, 500, 20000}

\* StartedDateTime values by what ParseHARDateTime returns for them: an
\* instant, or an error.
Unparseable == [ok |-> FALSE, t |-> 0]

StartedDateTimes == {[ok |-> TRUE, t |-> t] : t \in StartTimes} \cup {Unparseable}

\* Entry.Time values, in milliseconds.
Durations == {0, 50, 200, 2000}

\* The entries the chart distinguishes: start and duration.
ChartEntries == [started : StartedDateTimes, time : Durations]

ChartWidths == {30, defaultChartWidth}

\* time.Now() at a render: an instant later than every start, and one
\* earlier than some (a file stamped ahead of this machine's clock).
Clock == {250, 30000}

\* har.ParseHARDateTime succeeded.
ParseOK(e) == e.started.ok

SetMin(S) == CHOOSE x \in S : \A y \in S : x <= y

SetMax(S) == CHOOSE x \in S : \A y \in S : x >= y

\* Update: the positions in range whose entry has a duration.
MeasurableIndices(ents, indices) ==
  LET keep(idx) == idx < Len(ents) /\ ents[idx + 1].time > 0
  IN SelectSeq(indices, keep)

\* Update: the earliest parsed start, or the zero time.
WaterfallStart(ents, indices) ==
  LET parsed == {i \in 1..Len(indices) : ParseOK(ents[indices[i] + 1])}
  IN IF parsed = {} THEN ZeroTime
     ELSE SetMin({ents[indices[i] + 1].started.t : i \in parsed})

\* Update: from the earliest parsed start to the latest parsed end.
WaterfallSpan(ents, indices) ==
  LET parsed == {i \in 1..Len(indices) : ParseOK(ents[indices[i] + 1])}
      ends == {ents[indices[i] + 1].started.t + ents[indices[i] + 1].time :
                 i \in parsed}
  IN IF parsed = {} THEN 0
     ELSE SetMax(ends) - WaterfallStart(ents, indices)

\* renderWaterfall's comparison: parsed starts in time order, the
\* unparseable ones last.
StartsBefore(ents, i, j) ==
  LET ei == ents[i + 1]
      ej == ents[j + 1]
  IN IF ~ParseOK(ei) THEN FALSE
     ELSE IF ~ParseOK(ej) THEN TRUE
     ELSE ei.started.t < ej.started.t

\* sort.Slice on at most insertionSortLimit positions: insertion sort.
RECURSIVE InsertByStart(_, _, _)
InsertByStart(ents, sorted, idx) ==
  IF sorted = <<>> THEN <<idx>>
  ELSE IF StartsBefore(ents, idx, sorted[Len(sorted)])
  THEN Append(InsertByStart(ents, SubSeq(sorted, 1, Len(sorted) - 1), idx),
              sorted[Len(sorted)])
  ELSE Append(sorted, idx)

RECURSIVE SortByStart(_, _)
SortByStart(ents, indices) ==
  IF indices = <<>> THEN <<>>
  ELSE InsertByStart(ents,
                     SortByStart(ents, SubSeq(indices, 1, Len(indices) - 1)),
                     indices[Len(indices)])

\* The longest duration among the charted entries.
maxDurationInSet(ents, indices) ==
  SetMax({0} \cup {ents[indices[i] + 1].time : i \in 1..Len(indices)})

\* int(x / y) for a positive y: the quotient truncated toward zero.
TruncDiv(x, y) == IF x >= 0 THEN x \div y ELSE -((-x) \div y)

\* Staggering that never wraps around.
BarOffsetNeverWrapped(view, entry, rowIndex, now) ==
  IF view.maxDuration <= smallTimespanMs THEN 0
  ELSE rowIndex * staggerOffset

\* renderRequestBar: the column where the bar starts.  An entry whose start
\* does not parse is placed as if it started now.
BarOffset(view, entry, rowIndex, now) ==
  LET startTime == IF ParseOK(entry) THEN entry.started.t ELSE now
      relativeStart == startTime - view.startTime
      staggered == rowIndex * staggerOffset
  IN IF view.maxDuration <= smallTimespanMs THEN 0
     ELSE IF view.maxDuration > largeTimespanMs
     THEN IF staggered > view.chartWidth \div 3
          THEN (rowIndex % (view.chartWidth \div 6)) * staggerOffset
          ELSE staggered
     ELSE TruncDiv(view.chartWidth * relativeStart, view.maxDuration)

AtLeastOne(width, duration) ==
  IF width < 1 /\ duration > 0 THEN 1 ELSE width

\* The width by the window alone, never rescaled by the longest duration.
BarWidthByWindowOnly(view, entry) ==
  IF view.maxDuration <= 0 THEN 1
  ELSE AtLeastOne((view.chartWidth * entry.time) \div view.maxDuration,
                  entry.time)

\* renderRequestBar: the number of columns of the bar.
BarWidth(view, entry) ==
  LET duration == entry.time
      longest == maxDurationInSet(view.entries, view.indices)
  IN IF view.maxDuration <= 0
     THEN IF longest > 0 /\ duration > 0
          THEN LET w == (view.chartWidth * duration) \div longest
               IN IF w < 1 THEN 1 ELSE w
          ELSE 1
     ELSE LET timespanBasedWidth ==
                (view.chartWidth * duration) \div view.maxDuration
              tooNarrow ==
                /\ view.chartWidth * duration
                     < minBarWidthThreshold * view.maxDuration
                /\ duration > minDurationForScaling
          IN IF tooNarrow
             THEN IF longest > 0
                  THEN LET w == (view.chartWidth * durationScalingTenths
                                   * duration) \div (10 * longest)
                       IN IF w < minBarWidthLarge /\ duration > smallTimespanMs
                          THEN minBarWidthLarge
                          ELSE IF w < minBarWidthSmall
                                  /\ duration > minDurationForScaling
                          THEN minBarWidthSmall
                          ELSE AtLeastOne(w, duration)
                  ELSE AtLeastOne(timespanBasedWidth, duration)
             ELSE AtLeastOne(timespanBasedWidth, duration)

\* renderWaterfall: one row per charted position, in start order.
renderWaterfall(view, now) ==
  LET sortedIndices == SortByStart(view.entries, view.indices)
  IN [i \in 1..Len(sortedIndices) |->
        LET entry == view.entries[sortedIndices[i] + 1]
        IN [position |-> sortedIndices[i],
            offset |-> BarOffset(view, entry, i - 1, now),
            width |-> BarWidth(view, entry)]]

\* Sequences without repetition over S, of length at most n.
RECURSIVE DistinctSeqs(_, _)
DistinctSeqs(S, n) ==
  IF n = 0 THEN {<<>>}
  ELSE LET shorter == DistinctSeqs(S, n - 1)
           fresh(s, x) == \A i \in 1..Len(s) : s[i] # x
           longer == {Append(s, x) : s \in shorter, x \in S}
       IN shorter \cup {s \in longer : fresh(SubSeq(s, 1, Len(s) - 1), s[Len(s)])}

\* The view before its first Update, with the arguments of the call: some
\* entries, filtered positions (one of them may lie beyond the entries at
\* hand) and a chart width.
InitWaterfall ==
  /\ Idle
  /\ entries = <<>>
  /\ byType = [t \in Types |-> <<>>]
  /\ byStatus = [st \in Statuses |-> <<>>]
  /\ filterState = NewFilterState
  /\ evalPc = "render"
  /\ evalIndexed = <<>>
  /\ evalAgain = <<>>
  /\ evalNaive = <<>>
  /\ ia = <<>>
  /\ ib = <<>>
  /\ iout = <<>>
  /\ NoRequest
  /\ locks = NewLocks
  /\ \E n \in 1..MaxChartEntries :
     \E ents \in [1..n -> ChartEntries] :
     \E filtered \in DistinctSeqs(0..n, MaxChartEntries) \ {<<>>} :
     \E width \in ChartWidths :
       wv = [NewWaterfallView EXCEPT !.entries = ents,
                                     !.filtered = filtered,
                                     !.chartWidth = width]

requestInfoColumnsWidth == 70

minChartWidth == 20

\* renderWaterfall, before it draws: nothing without indices; otherwise the
\* chart takes the width the terminal leaves, unless a zoom fixed it.
AutoSize(view) ==
  IF Len(view.indices) = 0 THEN view
  ELSE IF /\ view.viewWidth > 0
          /\ ~view.manuallyResized
          /\ view.viewWidth - requestInfoColumnsWidth > minChartWidth
       THEN [view EXCEPT !.chartWidth = view.viewWidth - requestInfoColumnsWidth]
       ELSE view

\* WaterfallView.Update(entries, indices) with the same arguments, at some
\* instant of the clock.  renderRequestBar pads a row with
\* strings.Repeat(" ", startPos), which panics on a negative count.
Update ==
  /\ evalPc = "render"
  /\ panicked = "none"
  /\ Len(wv.renders) < MaxRenders
  /\ \E now \in Clock :
       LET indices == MeasurableIndices(wv.entries, wv.filtered)
           view == AutoSize([wv EXCEPT
                      !.indices = indices,
                      !.startTime = WaterfallStart(wv.entries, indices),
                      !.maxDuration = WaterfallSpan(wv.entries, indices)])
           rows == renderWaterfall(view, now)
       IN IF \E i \in 1..Len(rows) : rows[i].offset < 0
          THEN /\ wv' = view
               /\ panicked' = "negative Repeat count"
          ELSE /\ wv' = [view EXCEPT !.renders = Append(@, rows)]
               /\ UNCHANGED panicked
  /\ UNCHANGED <<loaderVars, uiQueue, isLoading, harData, filterState,
                 filteredEntries, shown, uiPc, uEntries, uResult, keys, saved,
                 uiLast, barProgress, evalPc, evalIndexed, evalAgain,
                 evalNaive, ia, ib, iout, req, reqCors, reqType, locks>>

NextWaterfall == Update

SpecWaterfall == InitWaterfall /\ [][NextWaterfall]_vars

\* ------------------------------------------------------- staggered charts
\* Distances between the starts of consecutive entries, in milliseconds.
StaggerGaps == {2000, 6000}

\* Chart widths from the narrowest one SetChartWidth accepts.
StaggerWidths == {21, 30}

\* n entries of 50 ms that start gap milliseconds apart.
SpacedEntries(n, gap) ==
  [p \in 1..n |-> [started |-> [ok |-> TRUE, t |-> (p - 1) * gap], time |-> 50]]

\* The positions 0..n-1 from the last to the first.
Reversed(n) == [i \in 1..n |-> n - i]

\* A view about to chart up to MaxStaggerRows entries, in file order or
\* against it.
InitStagger ==
  /\ Idle
  /\ entries = <<>>
  /\ byType = [t \in Types |-> <<>>]
  /\ byStatus = [st \in Statuses |-> <<>>]
  /\ filterState = NewFilterState
  /\ evalPc = "render"
  /\ evalIndexed = <<>>
  /\ evalAgain = <<>>
  /\ evalNaive = <<>>
  /\ ia = <<>>
  /\ ib = <<>>
  /\ iout = <<>>
  /\ NoRequest
  /\ locks = NewLocks
  /\ \E n \in 1..MaxStaggerRows :
     \E gap \in StaggerGaps :
     \E filtered \in {Range(n), Reversed(n)} :
     \E width \in StaggerWidths :
       wv = [NewWaterfallView EXCEPT !.entries = SpacedEntries(n, gap),
                                     !.filtered = filtered,
                                     !.chartWidth = width]

SpecStagger == InitStagger /\ [][NextWaterfall]_vars

\* WaterfallView.GetSelectedIndex with currentRow the list's current item.
GetSelectedIndex(view, currentRow) ==
  IF currentRow < 0 \/ currentRow >= Len(view.indices) THEN -1
  ELSE view.indices[currentRow + 1]

\* ------------------------------------------------------------ lock protocol

\* The two goroutines before the first entry is decoded.
InitLocks ==
  /\ Idle
  /\ entries = <<>>
  /\ byType = [t \in Types |-> <<>>]
  /\ byStatus = [st \in Statuses |-> <<>>]
  /\ filterState = NewFilterState
  /\ evalPc = "locks"
  /\ evalIndexed = <<>>
  /\ evalAgain = <<>>
  /\ evalNaive = <<>>
  /\ ia = <<>>
  /\ ib = <<>>
  /\ iout = <<>>
  /\ NoRequest
  /\ wv = NewWaterfallView
  /\ locks = NewLocks

\* A goroutine that can run does run: the ingestor decodes to the end of the
\* file, and a call the UI has begun goes on to its return.  The UI is not
\* obliged to begin a call.
SpecLocks ==
  /\ InitLocks
  /\ [][NextLocks]_vars
  /\ WF_vars(IngestorLocks)
  /\ WF_vars(UILocksProgress)

\* ------------------------------------------------------------------- zoom

\* Widths GetInnerRect can report: none yet, one that leaves the chart 20
\* columns, one that leaves it 21, and wide terminals.
ViewWidths == {0, 90, 91, 150, 300}

\* Widths asked of SetChartWidth, on both sides of each of its limits.
RequestedWidths == {20, 21, 25, 199, 200}

\* A view showing one entry, or none, before any zoom.
InitZoom ==
  /\ Idle
  /\ entries = <<>>
  /\ byType = [t \in Types |-> <<>>]
  /\ byStatus = [st \in Statuses |-> <<>>]
  /\ filterState = NewFilterState
  /\ evalPc = "zoom"
  /\ evalIndexed = <<>>
  /\ evalAgain = <<>>
  /\ evalNaive = <<>>
  /\ ia = <<>>
  /\ ib = <<>>
  /\ iout = <<>>
  /\ NoRequest
  /\ locks = NewLocks
  /\ \E shownIndices \in {<<>>, <<0>>} :
       wv = [NewWaterfallView EXCEPT
               !.entries = <<[time |-> 50, started |-> [ok |-> TRUE, t |-> 0]]>>,
               !.filtered = shownIndices,
               !.indices = shownIndices]

ZoomUnchanged ==
  UNCHANGED <<loaderVars, uiQueue, uiVars, evalPc, evalIndexed, evalAgain,
              evalNaive, ia, ib, iout, req, reqCors, reqType, locks>>

Ask(view, turnedDown) ==
  [view EXCEPT !.asked = 1 - @, !.refused = turnedDown]

\* The terminal changes the rectangle of the view.
Resized ==
  /\ evalPc = "zoom"
  /\ \E width \in ViewWidths : wv' = [wv EXCEPT !.viewWidth = width]
  /\ ZoomUnchanged

\* ToggleDetails: the details flag flips and the chart is rendered again.
ToggleDetails ==
  /\ evalPc = "zoom"
  /\ wv' = AutoSize([wv EXCEPT !.showDetails = ~@])
  /\ ZoomUnchanged

\* A ZoomOut that subtracts whatever the width.
ZoomOutUnguarded ==
  /\ evalPc = "zoom"
  /\ wv' = AutoSize(Ask([wv EXCEPT !.chartWidth = @ - 10,
                                   !.manuallyResized = TRUE], FALSE))
  /\ ZoomUnchanged

SetChartWidth ==
  /\ evalPc = "zoom"
  /\ \E width \in RequestedWidths :
       wv' = IF width > 20 /\ width < 200
             THEN AutoSize(Ask([wv EXCEPT !.chartWidth = width,
                                          !.manuallyResized = TRUE], FALSE))
             ELSE Ask(wv, TRUE)
  /\ ZoomUnchanged

ResetZoom ==
  /\ evalPc = "zoom"
  /\ wv' = AutoSize(Ask([wv EXCEPT !.manuallyResized = FALSE], FALSE))
  /\ ZoomUnchanged

ZoomIn ==
  /\ evalPc = "zoom"
  /\ wv' = IF wv.chartWidth < 150
           THEN AutoSize(Ask([wv EXCEPT !.chartWidth = @ + 10,
                                        !.manuallyResized = TRUE], FALSE))
           ELSE Ask(wv, TRUE)
  /\ ZoomUnchanged

ZoomOut ==
  /\ evalPc = "zoom"
  /\ wv' = IF wv.chartWidth > 30
           THEN AutoSize(Ask([wv EXCEPT !.chartWidth = @ - 10,
                                        !.manuallyResized = TRUE], FALSE))
           ELSE Ask(wv, TRUE)
  /\ ZoomUnchanged

NextZoom ==
  \/ Resized
  \/ ToggleDetails
  \/ SetChartWidth
  \/ ResetZoom
  \/ ZoomIn
  \/ ZoomOut

SpecZoom == InitZoom /\ [][NextZoom]_vars

\* ------------------------------------------------------------------ claims
NoteKinds == [i \in 1..Len(notes) |-> notes[i][1]]

IsTerminalKind(k) == k \in {"complete", "error"}

Terminals == Len(SelectSeq(NoteKinds, IsTerminalKind))

Noted(kind) == \E i \in 1..Len(notes) : notes[i][1] = kind

Elements(list) == {list[i] : i \in 1..Len(list)}

Occurrences(list, x) == Cardinality({i \in 1..Len(list) : list[i] = x})

\* The entries of the file, in file order.
DocEntries ==
  LET isEntry(c) == c \in EntryTokens
      toks == SelectSeq(doc, isEntry)
  IN [i \in 1..Len(toks) |-> EntryOf(toks[i])]

\* The positions passed to onEntryAdded, in call order.
AddedPositions ==
  LET isAdded(n) == n[1] = "added"
      added == SelectSeq(notes, isAdded)
  IN [i \in 1..Len(added) |-> added[i][2]]

\* C1: a reader that took the entries with GetEntries and then a category
\* list with GetByType never holds a list with a position N while the entries
\* it holds have length <= N, nor entries of length > N whose category list
\* lacks N.
C1_ReaderNeverSeesPartialIndex ==
  (uiPc = "rest" /\ filterState.ActiveTypeFilter # "all") =>
    /\ \A i \in 1..Len(uResult) : uResult[i] < uEntries
    /\ \A N \in 0..(uEntries - 1) :
         GetRequestType(entries[N + 1]) = filterState.ActiveTypeFilter
           => N \in Elements(uResult)

\* C2: a run gives at most one terminal notification, exactly one once the
\* goroutine has returned, and after it the run appends nothing and notifies
\* nothing.
C2_ExactlyOneTerminal ==
  /\ [](Terminals <= 1 /\ (pc = "done" => Terminals = 1))
  /\ [][Terminals = 1 => (entries' = entries /\ notes' = notes)]_vars

C2_Witness ==
  /\ pc = "done" /\ Noted("complete") /\ Len(entries) = 2
  /\ uiLast = "save"

\* C3: a run over a malformed or truncated document ends with an error
\* notification and never with a success notification.
C3_MalformedEndsInError ==
  ~WellFormed(doc) => (~Noted("complete") /\ (pc = "done" => Noted("error")))

\* C4: when a run aborts with an error after k entries, the store holds those
\* k entries at positions 0..k-1 and the error path changes neither the store
\* nor any index list.
C4_ErrorKeepsEntries ==
  /\ [](Noted("error") =>
          /\ entries = decoded
          /\ \A p \in 0..(Len(entries) - 1) :
               /\ p \in Elements(byType[GetRequestType(entries[p + 1])])
               /\ p \in Elements(byStatus[entries[p + 1].status]))
  /\ [][(Noted("error")' => UNCHANGED <<entries, byType, byStatus>>)]_vars

C4_Witness ==
  /\ Noted("error") /\ Len(entries) = 2 /\ pc = "done"
  /\ ~isLoading

\* C5: after onLoadingError has run, every updateRequestsList shows the
\* filter result over the ingested entries and saveFilteredHAR exports the
\* visible entries without failing.
C5_PartialDataUsable ==
  (~isLoading /\ ~harData.set /\ Len(entries) > 0) =>
    /\ panicked = "none"
    /\ (uiLast = "update" => shown = FilterEntries(filterState, entries))
    /\ (uiLast = "save" => saved = SaveFilteredHAR(entries, filteredEntries))

\* C6: the k-th decoded entry of the file is stored at index k, the same k
\* goes to AddEntry and to onEntryAdded, and onEntryAdded sees 0, 1, 2, ...
C6_PositionsInFileOrder ==
  /\ decoded = SubSeq(DocEntries, 1, Len(decoded))
  /\ entries = decoded
  /\ AddedPositions = Range(Len(AddedPositions))
  /\ \A k \in Elements(AddedPositions) :
       /\ k < Len(entries)
       /\ k \in Elements(byStatus[entries[k + 1].status])
       /\ k \in Elements(byType[GetRequestType(entries[k + 1])])

C6_Witness ==
  /\ AddedPositions = <<0, 1>>
  /\ entries[1] # entries[2]

\* C7: while no append is in progress the category lists partition the
\* stored positions, and after a success notification the store holds every
\* entry of the document.
C7_CategoriesPartition ==
  /\ (slMutex = "free") =>
       /\ \A t \in DOMAIN byType : Elements(byType[t]) \subseteq 0..(Len(entries) - 1)
       /\ \A p \in 0..(Len(entries) - 1) :
            /\ Cardinality({t \in DOMAIN byType : p \in Elements(byType[t])}) = 1
            /\ \A t \in DOMAIN byType : Occurrences(byType[t], p) <= 1
  /\ Noted("complete") => Len(entries) = Len(DocEntries)

C7_Witness ==
  /\ Noted("complete") /\ Len(entries) = 2
  /\ Len(byType["doc"]) = 1 /\ Len(byType["fetch"]) = 1

\* C8: for every FilterState and every store whose entries are all indexed,
\* FilterEntriesWithIndex and FilterEntries return the same set of positions.
C8_IndexedEqualsNaiveAsSets ==
  evalPc = "done" => Elements(evalIndexed) = Elements(evalNaive)

C8_Witness ==
  /\ evalPc = "done"
  /\ filterState.ShowErrorsOnly /\ filterState.ActiveTypeFilter = "doc"
  /\ filterState.FilterText # <<>>
  /\ Len(evalNaive) = 2 /\ Len(entries) = 3

\* C9: two evaluations of FilterEntriesWithIndex with the same FilterState on
\* the same store and index return the same sequence.
C9_SameOrderTwice ==
  evalPc \in {"naive", "done"} => evalIndexed = evalAgain

\* C10: IntersectIndices(a, b) is the subsequence of b of the elements that
\* occur in a, and is empty when a or b is empty.
C10_IntersectIsSubsequenceOfB ==
  evalPc = "done" =>
    LET inA(v) == \E i \in 1..Len(ia) : ia[i] = v IN
    /\ iout = SelectSeq(ib, inA)
    /\ (Len(ia) = 0 \/ Len(ib) = 0) => iout = <<>>

C10_Witness ==
  /\ evalPc = "done"
  /\ ia = <<2, 2, 1>> /\ ib = <<1, 2, 1>> /\ iout = <<1, 2, 1>>

\* C11 as stated: IntersectIndices([2,2,3,3,4], [1,2,3]) returns [2,2,3,3].
C11_ExampleKeepsDuplicatesOfA ==
  (evalPc = "done" /\ ia = <<2, 2, 3, 3, 4>> /\ ib = <<1, 2, 3>>)
    => iout = <<2, 2, 3, 3>>

\* C11 amended: IntersectIndices([2,2,3,3,4], [1,2,3]) returns [2,3]; the
\* duplicates are kept when they are in the second argument:
\* IntersectIndices([1,2,3], [2,2,3,3,4]) returns [2,2,3,3].
C11_ExampleKeepsDuplicatesOfB ==
  /\ (evalPc = "done" /\ ia = <<2, 2, 3, 3, 4>> /\ ib = <<1, 2, 3>>)
       => iout = <<2, 3>>
  /\ (evalPc = "done" /\ ia = <<1, 2, 3>> /\ ib = <<2, 2, 3, 3, 4>>)
       => iout = <<2, 2, 3, 3>>

C11_Witness ==
  evalPc = "done" /\ ia = <<2, 2, 3, 3, 4>> /\ ib = <<1, 2, 3>> /\ iout = <<2, 3>>

\* g is f with one more filter enabled.
OneMoreFilter(f, g) ==
  \/ ~f.ShowErrorsOnly /\ g = [f EXCEPT !.ShowErrorsOnly = TRUE]
  \/ f.FilterText = <<>> /\ g.FilterText # <<>>
       /\ g = [f EXCEPT !.FilterText = g.FilterText]
  \/ f.ActiveTypeFilter = "all" /\ g.ActiveTypeFilter # "all"
       /\ g = [f EXCEPT !.ActiveTypeFilter = g.ActiveTypeFilter]

\* The entry at position p satisfies every active filter of f.
SatisfiesAll(f, p) ==
  LET entry == entries[p + 1] IN
  /\ (f.ActiveTypeFilter # "all" => GetRequestType(entry) = f.ActiveTypeFilter)
  /\ (f.ShowErrorsOnly => (entry.status >= 400 \/ entry.status = 0))
  /\ (f.FilterText # <<>> => Contains(ToLower(entry.host), ToLower(f.FilterText)))

\* C12: with sorting off, FilterEntries returns, in increasing order and
\* without duplicates, exactly the positions whose entries satisfy every
\* active filter, and enabling one more filter never adds a position.
C12_NaiveScanIsConjunction ==
  (evalPc = "done" /\ ~filterState.SortBySlowest) =>
    /\ \A i \in 1..(Len(evalNaive) - 1) : evalNaive[i] < evalNaive[i + 1]
    /\ Elements(evalNaive)
         = {p \in 0..(Len(entries) - 1) : SatisfiesAll(filterState, p)}
    /\ \A g \in FilterStates :
         OneMoreFilter(filterState, g)
           => Elements(FilterEntries(g, entries)) \subseteq Elements(evalNaive)

C12_Witness ==
  /\ evalPc = "done" /\ ~filterState.SortBySlowest
  /\ filterState.ShowErrorsOnly /\ filterState.ActiveTypeFilter = "doc"
  /\ filterState.FilterText = <<"a">>
  /\ entries = <<E5, E1, E5>> /\ evalNaive = <<0, 2>>

\* The positions of the store whose response status is >= 400 or 0.
ErrorPositions ==
  {p \in 0..(Len(entries) - 1) :
     entries[p + 1].status >= 400 \/ entries[p + 1].status = 0}

SortedStably(list) ==
  \A a \in 1..Len(list), b \in 1..Len(list) :
    a < b =>
      /\ entries[list[a] + 1].time >= entries[list[b] + 1].time
      /\ (entries[list[a] + 1].time = entries[list[b] + 1].time
            => list[a] < list[b])

\* C14: with SortBySlowest set the returned positions are ordered by
\* non-increasing entry time, and positions whose entries have equal time
\* keep the relative order they had before sorting.
C14_SortIsStableDescending ==
  (evalPc = "done" /\ filterState.SortBySlowest) =>
    /\ SortedStably(evalNaive)
    /\ SortedStably(evalIndexed)

\* The label of the first matching rule of the cascade as documented; the
\* path and the scheme of a URL that cannot be parsed are empty.
FirstMatchingRule(r, cors) ==
  LET path == IF r.urlOK THEN r.path ELSE ""
      scheme == IF r.urlOK THEN r.scheme ELSE ""
  IN IF cors THEN "cors"
     ELSE IF scheme \in {"ws", "wss"} THEN "ws"
     ELSE IF ResourceTypeLabel(r.resourceType) # ""
     THEN ResourceTypeLabel(r.resourceType)
     ELSE IF ContentTypeLabel(r.contentType) # ""
     THEN ContentTypeLabel(r.contentType)
     ELSE IF ExtensionLabel(path) # "" THEN ExtensionLabel(path)
     ELSE IF r.xhr THEN "fetch"
     ELSE IF path \in {"/", ""} THEN "doc"
     ELSE IF IsAPIPath(path) THEN "fetch"
     ELSE "other"

\* C15: GetRequestType returns the label of the first rule that matches in
\* the order cors, ws scheme, resource-type hint, Content-Type, path
\* extension, XHR/fetch headers, root or API path, other; also for an entry
\* whose URL cannot be parsed, whose host and path then count as empty.
C15_FirstMatchingRuleDecides ==
  evalPc = "done" => reqType = FirstMatchingRule(req, reqCors)

\* The cascade of IsCORSError as documented: rule 4 asks for a referer whose
\* host differs from the request host.
DocumentedCORS(r, hostsDiffer) ==
  IF r.status # 0 THEN FALSE
  ELSE IF r.method = "OPTIONS" THEN r.acrm
  ELSE IF r.origin THEN TRUE
  ELSE IF r.secFetchMode \in {"cors", "CORS"} THEN TRUE
  ELSE r.method = "GET" /\ hostsDiffer /\ r.reqJSON

\* The host of the request URL; empty when the URL cannot be parsed.
RequestHost(r) == IF r.urlOK THEN r.host ELSE ""

\* C16 as stated: with status 0 the first applicable rule decides, and rule 4
\* holds whenever there is a referer whose host differs from the request
\* host.
C16_CORSCascade ==
  evalPc = "done" =>
    reqCors = DocumentedCORS(req, /\ req.referer \notin {"none", "bad"}
                                  /\ req.referer # RequestHost(req))

\* C16 amended: rule 4 holds when the request URL can be parsed and the
\* referer host and the request host are both non-empty and differ.
C16_CORSCascadeNonEmptyHosts ==
  evalPc = "done" =>
    reqCors = DocumentedCORS(req, /\ req.referer \notin {"none", "bad", ""}
                                  /\ req.urlOK /\ req.host # ""
                                  /\ req.referer # req.host)

C16_Witness ==
  /\ evalPc = "done" /\ reqCors
  /\ req.status = 0 /\ req.method = "GET" /\ ~req.origin
  /\ req.secFetchMode = "navigate"
  /\ req.referer = "b" /\ req.host = "a" /\ req.urlOK /\ req.reqJSON


\* ---------------------------------------------------------------------------
\* C17: an export writes exactly the store entries at the visible positions,
\* one per visible position and in the visible order, during the load and
\* after it.  The list widget is compared while the event loop is idle, that
\* is, before the next update clears it.
EntriesAt(positions) ==
  [i \in 1..Len(positions) |-> entries[positions[i] + 1]]

C17_ExportIsVisibleEntries ==
  (uiLast = "save" /\ uiPc = "idle") => saved = EntriesAt(shown)


\* ---------------------------------------------------------------------------
\* The closures onEntryAdded handed to QueueUpdateDraw so far.
AddedRequests(kinds) ==
  LET asked(n) == n[1] = "added" /\ n[3] \in kinds
  IN Len(SelectSeq(notes, asked))

\* C18: the ingestor asks the UI to redraw at most once per batch of
\* batchUpdateSize appended entries, never once per appended entry.
C18_RedrawOncePerBatch ==
  AddedRequests({"update", "bar"}) * defaultBatchUpdateSize <= Len(entries)

\* C18 as amended: the ingestor asks the UI to rebuild the request list at
\* most once per batch of batchUpdateSize appended entries; every other
\* appended entry asks for a redraw of the bottom bar only.
C18_RebuildOncePerBatch ==
  /\ AddedRequests({"update"}) * defaultBatchUpdateSize <= Len(entries)
  /\ AddedRequests({"update", "bar"}) = entryCount

C18_Witness ==
  /\ AddedRequests({"update"}) >= 1
  /\ AddedRequests({"bar"}) >= 1


\* ---------------------------------------------------------------------------
\* A step of the ingestor goroutine: LoadFromFile and the callbacks it calls
\* directly.  Every other step is one of the UI event loop.
IngestorStep ==
  <<pc, dec, decoded, entryCount, notes>>' # <<pc, dec, decoded, entryCount, notes>>

\* C19: outside the entry store and the index, every Application field
\* belongs to one task.  loadingProgress, isLoading, filteredEntries and the
\* FilterState are read by the event loop (updateBottomBar and
\* updateRequestsList), so no ingestor step writes them; lastUpdateCount is
\* the ingestor's, so no event-loop step writes it.
C19_FieldsBelongToOneTask ==
  [][/\ IngestorStep =>
          /\ loadingProgress' = loadingProgress
          /\ isLoading' = isLoading
          /\ filteredEntries' = filteredEntries
          /\ filterState' = filterState
     /\ ~IngestorStep => lastUpdateCount' = lastUpdateCount]_vars


\* ---------------------------------------------------------------------------
\* C20: two renders of the waterfall with the same entries, the same filtered
\* positions and the same chart width give every entry the same offset and
\* the same width, entries with an unparseable timestamp included.
C20_ProjectionIsFunctionOfView ==
  \A i, j \in 1..Len(wv.renders) : wv.renders[i] = wv.renders[j]


\* ---------------------------------------------------------------------------
\* The charted positions whose start parses, and the view charting only them.
Readable(e) == e.started # Unparseable

ReadableIndices(view) ==
  LET readable(idx) == Readable(view.entries[idx + 1])
  IN SelectSeq(view.indices, readable)

ReadableView(view) ==
  LET indices == ReadableIndices(view)
  IN [view EXCEPT !.indices = indices,
                  !.startTime = WaterfallStart(view.entries, indices),
                  !.maxDuration = WaterfallSpan(view.entries, indices)]

\* The rows of a render without the bar widths.
Placement(rows) ==
  [i \in 1..Len(rows) |-> [position |-> rows[i].position,
                           offset |-> rows[i].offset]]

ReadableRows(view, rows) ==
  LET readable(row) == Readable(view.entries[row.position + 1])
  IN SelectSeq(rows, readable)

\* C21: an entry with a duration whose start cannot be parsed leaves the
\* window (earliest start, window length, hence latest end) as it is without
\* it, still gets one row, and leaves the rows of the other entries in the
\* order and at the offsets they have without it; no render is aborted.
C21_UnparseableEntryIsListedOutsideWindow ==
  /\ panicked = "none"
  /\ \A k \in 1..Len(wv.renders) :
       LET rows == wv.renders[k]
           without == ReadableView(wv)
       IN /\ wv.startTime = without.startTime
          /\ wv.maxDuration = without.maxDuration
          /\ Len(rows) = Len(wv.indices)
          /\ \A i \in 1..Len(wv.indices) :
               \E j \in 1..Len(rows) : rows[j].position = wv.indices[i]
          /\ \A now \in Clock :
               Placement(ReadableRows(wv, rows))
                 = Placement(renderWaterfall(without, now))


\* ---------------------------------------------------------------------------
\* The window of the view is in the staggering regime.
LargeWindow == wv.maxDuration > largeTimespanMs

\* C22: with a window longer than 10,000 ms the bar at render row i (from 0)
\* is at offset (i mod (chartWidth/6)) * 2, for every row, and no offset
\* exceeds chartWidth/3.
C22_StaggeredOffsetIsModular ==
  LargeWindow =>
    \A k \in 1..Len(wv.renders) : \A r \in 1..Len(wv.renders[k]) :
      LET i == r - 1
          offset == wv.renders[k][r].offset
      IN /\ offset = (i % (wv.chartWidth \div 6)) * staggerOffset
         /\ offset <= wv.chartWidth \div 3

\* C22 as amended: the bar at row i is at offset 2 * i while that does not
\* exceed chartWidth/3 and at (i mod (chartWidth/6)) * 2 beyond, and no
\* offset exceeds chartWidth/3.
C22_StaggeredOffsetWrapsBeyondThird ==
  LargeWindow =>
    \A k \in 1..Len(wv.renders) : \A r \in 1..Len(wv.renders[k]) :
      LET i == r - 1
          offset == wv.renders[k][r].offset
      IN /\ offset = IF i * staggerOffset <= wv.chartWidth \div 3
                     THEN i * staggerOffset
                     ELSE (i % (wv.chartWidth \div 6)) * staggerOffset
         /\ offset <= wv.chartWidth \div 3

C22_Witness ==
  /\ LargeWindow
  /\ \E k \in 1..Len(wv.renders) : \E r \in 1..Len(wv.renders[k]) :
       /\ (r - 1) * staggerOffset > wv.chartWidth \div 3
       /\ wv.renders[k][r].offset > 0


\* ---------------------------------------------------------------------------
\* The largest duration among the filtered positions that exist.
LargestFilteredDuration ==
  LET present == {i \in 1..Len(wv.filtered) : wv.filtered[i] < Len(wv.entries)}
  IN SetMax({0} \cup {wv.entries[wv.filtered[i] + 1].time : i \in present})

\* The entry of a row is too narrow by the window: its primary width is
\* below 5 columns although it lasts more than 20 ms.
TooNarrow(row) ==
  LET duration == wv.entries[row.position + 1].time
  IN /\ wv.maxDuration > 0
     /\ wv.chartWidth * duration < minBarWidthThreshold * wv.maxDuration
     /\ duration > minDurationForScaling

\* 0.8 * chartWidth * duration / (largest filtered duration), in columns.
Rescaled(row) ==
  (durationScalingTenths * wv.chartWidth * wv.entries[row.position + 1].time)
    \div (10 * LargestFilteredDuration)

\* C23: for a positive window, an entry whose primary width is below 5
\* columns and whose duration exceeds 20 ms has the width 0.8 * chartWidth *
\* duration / (largest duration in the filtered set), raised to 2 columns,
\* and to 3 when the duration exceeds 100 ms; every row is at least 1 wide.
C23_NarrowBarsAreRescaled ==
  \A k \in 1..Len(wv.renders) : \A r \in 1..Len(wv.renders[k]) :
    LET row == wv.renders[k][r]
        duration == wv.entries[row.position + 1].time
        least == IF duration > smallTimespanMs THEN minBarWidthLarge
                 ELSE minBarWidthSmall
    IN /\ row.width >= 1
       /\ TooNarrow(row) =>
            row.width = IF Rescaled(row) < least THEN least ELSE Rescaled(row)

C23_Witness ==
  \E k \in 1..Len(wv.renders) : \E r \in 1..Len(wv.renders[k]) :
    /\ TooNarrow(wv.renders[k][r])
    /\ wv.entries[wv.renders[k][r].position + 1].time > smallTimespanMs
    /\ Rescaled(wv.renders[k][r]) < minBarWidthLarge
    /\ wv.renders[k][r].width = minBarWidthLarge


\* ---------------------------------------------------------------------------
\* C24: while the ingestor appends, a recomputation that takes the entries
\* with GetEntries and then calls FilterEntriesWithIndex never reads the
\* entries at a position beyond them (the sort would panic) and never
\* returns such a position.
C24_IndexedFilterStaysInsideEntries ==
  /\ panicked # "index out of range"
  /\ (isLoading /\ uiPc = "idle" /\ uiLast = "update") =>
       \A i \in 1..Len(filteredEntries) : filteredEntries[i] < uEntries


\* ---------------------------------------------------------------------------
\* C25: with a non-empty visible list, during the load and after its
\* failure too, a key that acts on the selected entry never dereferences a
\* harData that has not been set.
C25_EntryKeysReadExistingData ==
  [][shown # <<>> => panicked' # "nil pointer dereference in handleInput"]_vars


\* ---------------------------------------------------------------------------
\* C26: for every row r of the waterfall, GetSelectedIndex with row r
\* current returns the position of the entry whose bar was drawn at row r,
\* whatever the order of the filtered positions.
C26_SelectedRowIsDrawnEntry ==
  \A k \in 1..Len(wv.renders) : \A r \in 1..Len(wv.renders[k]) :
    GetSelectedIndex(wv, r - 1) = wv.renders[k][r].position


Holds(m, g) == g \in m.readers \/ g \in m.blocked

\* The ingestor announces itself at the index lock only inside the loader lock.
LoaderLockBeforeIndexLock ==
  locks.idx.writer # "none" => locks.sl.writer = "held"

\* No goroutine reads, or waits to read, one lock while inside the other.
ReadersHoldOneLock ==
  \A g \in Goroutines :
    ~(Holds(locks.sl, g) /\ Holds(locks.idx, g))

\* Between two calls a goroutine holds nothing.
Outside == {"idle", "decode", "callback", "filter"}

EveryLockReleased ==
  /\ \A g \in Goroutines :
       locks.at[g] \in Outside =>
         ~Holds(locks.sl, g) /\ ~Holds(locks.idx, g)
  /\ locks.at["ingestor"] \in Outside =>
       locks.sl.writer = "none" /\ locks.idx.writer = "none"

\* C28: the loader lock and the index lock cannot deadlock: the ingestor
\* takes the loader lock before the index lock, no reader takes one of the
\* two while holding the other, every lock taken is released on every path,
\* and a reader waiting for either lock is eventually let in.
C28_LocksCannotDeadlock ==
  /\ [](LoaderLockBeforeIndexLock /\ ReadersHoldOneLock /\ EveryLockReleased)
  /\ \A g \in Goroutines :
       /\ (g \in locks.sl.blocked) ~> (g \in locks.sl.readers)
       /\ (g \in locks.idx.blocked) ~> (g \in locks.idx.readers)

\* The UI waits at the index lock while the ingestor is inside both locks.
C28_Witness ==
  /\ locks.sl.writer = "held"
  /\ locks.idx.writer = "held"
  /\ "ui" \in locks.idx.blocked

\* ---------------------------------------------------------------------------
\* C29
\* ---------------------------------------------------------------------------

ZoomRefused == wv'.asked # wv.asked /\ wv'.refused

\* C29: whatever zooms, width requests, resets and automatic resizes have
\* happened, the chart is wider than 20 columns, so chartWidth/6 is not 0;
\* and a request that is refused leaves the chart width and the
\* manual-resize flag as they were.
C29_ChartWidthStaysAboveMinimum ==
  /\ [](wv.chartWidth > 20 /\ wv.chartWidth \div 6 # 0)
  /\ [][ZoomRefused => /\ wv'.chartWidth = wv.chartWidth
                        /\ wv'.manuallyResized = wv.manuallyResized]_vars

\* A request has been refused at the narrowest width an automatic resize
\* chooses.
C29_Witness ==
  /\ wv.refused
  /\ ~wv.manuallyResized
  /\ wv.chartWidth = 21

\* ---------------------------------------------------------------------------
\* C30
\* ---------------------------------------------------------------------------

\* C30: every rendered entry, in every window regime and also when its
\* timestamp cannot be parsed, has a bar offset between 0 and chartWidth
\* inclusive; no render stops on an offset below 0.
C30_BarOffsetWithinChart ==
  /\ panicked # "negative Repeat count"
  /\ \A k \in 1..Len(wv.renders) :
       \A i \in 1..Len(wv.renders[k]) :
         wv.renders[k][i].offset \in 0..wv.chartWidth

====
